---- MODULE Spec2Model ----
(***************************************************************************)
(* Model of the prediction engine of rebuild-api-football                  *)
(* (src/backend/prediction_engine).                                        *)
(*                                                                         *)
(* Part I   StatsBuilder: the fold of matches into per-team statistics,    *)
(*          the in-memory team cache, the upsert into team_statistics and  *)
(*          the retrieval obtener_stats_equipo (SpecStats, SpecConc).      *)
(*                                                                         *)
(* Numbers: percentages that the code rounds to two decimals are kept as   *)
(* integers in hundredths of a percent (44.0 % is 4400).                   *)
(***************************************************************************)
EXTENDS Integers, Sequences, FiniteSets, TLC

VARIABLES
    football_matches,   \* the football_matches collection, ordered by fecha
    team_statistics,    \* the team_statistics collection, a set of documents
    equipos_cache,      \* StatsBuilder.equipos_cache: insertion-ordered dict
    tarea,              \* the construir_estadisticas invocations in flight
    consulta,           \* the last obtener_stats_equipo call and its result
    motor,              \* the last call of a function of PredictionEngine
    predictions,        \* the predictions collection, a set of documents
    validations,        \* the validations collection, in insertion order
    peticion,           \* the generar_pronostico invocations in flight
    devueltos,          \* the forecasts that generar_pronostico has returned
    validacion,         \* the last validar_pronostico call and its result
    uuids,              \* the number of Pronostico objects created so far
    servicio            \* the last call of a function of the other services

varsStats == <<football_matches, team_statistics, equipos_cache, tarea, consulta>>

varsMotor == <<motor>>

varsPron == <<predictions, validations, peticion, devueltos, validacion, uuids>>

varsServicio == <<servicio>>

vars == <<varsStats, varsMotor, varsPron, varsServicio>>

-----------------------------------------------------------------------------
(* Bounds of the model *)

\* the most matches the football_matches collection holds
MaxPartidos == 2

-----------------------------------------------------------------------------
(* Program constants *)

PUNTOS_VICTORIA == 3
PUNTOS_EMPATE == 1
PUNTOS_DERROTA == 0

-----------------------------------------------------------------------------
(* Input domains *)

LIGA == "L1"
Temporadas == {"S1", "S2"}

\* a match document without the key (partido['equipo_local'] raises KeyError)
SinClave == "<missing>"

\* home/away pairings of the well-formed matches
Emparejamientos == {<<"A", "B">>, <<"B", "A">>}

\* with a third team, which plays in some batches and not in others
EmparejamientosTres == Emparejamientos \cup {<<"C", "A">>}

\* pairings of malformed documents: an empty name, a missing key
EmparejamientosMalos == {<<"A", "">>, <<SinClave, "B">>}

\* <<goles_local_TR, goles_visitante_TR, goles_local_1MT, goles_visitante_1MT>>
MarcadoresValidos == {<<1, 0, 0, 0>>, <<1, 1, 1, 0>>, <<1, 1, 0, 0>>}

\* more half-time goals than full-time goals
MarcadoresInvalidos == {<<0, 0, 1, 1>>}

Partido(s, e, m) ==
    [liga_id |-> LIGA, season_id |-> s,
     equipo_local |-> e[1], equipo_visitante |-> e[2],
     goles_local_TR |-> m[1], goles_visitante_TR |-> m[2],
     goles_local_1MT |-> m[3], goles_visitante_1MT |-> m[4]]

\* well-formed matches of three teams
PartidosValidos ==
    {Partido(s, e, m) : s \in Temporadas, e \in EmparejamientosTres,
                        m \in MarcadoresValidos}

\* matches of two teams, well-formed or not
PartidosPosibles ==
    {Partido(s, e, m) : s \in Temporadas, e \in Emparejamientos,
                        m \in MarcadoresValidos \cup MarcadoresInvalidos}
    \cup {Partido("S1", e, <<1, 0, 0, 0>>) : e \in EmparejamientosMalos}

SeqsHasta(S, n) == UNION {[1..k -> S] : k \in 0..n}

-----------------------------------------------------------------------------
(* Arithmetic helpers *)

Abs(x) == IF x < 0 THEN -x ELSE x
Max(a, b) == IF a >= b THEN a ELSE b
Min(a, b) == IF a <= b THEN a ELSE b

\* round(n / d) to the nearest integer, ties to even, for n >= 0 and d > 0
RoundDiv(n, d) ==
    LET q == n \div d
        r == n % d
    IN  IF 2 * r > d \/ (2 * r = d /\ q % 2 = 1) THEN q + 1 ELSE q

-----------------------------------------------------------------------------
(* models.py: EstadisticasEquipo and Equipo *)

TiposTiempo == {"completo", "primer_tiempo", "segundo_tiempo"}

Campos ==
    {"partidos_jugados", "victorias", "empates", "derrotas",
     "goles_favor", "goles_contra", "diferencia_goles", "puntos",
     "pj_local", "v_local", "e_local", "d_local",
     "gf_local", "gc_local", "pts_local",
     "pj_visita", "v_visita", "e_visita", "d_visita",
     "gf_visita", "gc_visita", "pts_visita",
     "rendimiento_general", "rendimiento_local", "rendimiento_visita",
     "promedio_gf", "promedio_gc"}

\* every field but diferencia_goles is declared with ge=0
CamposNoNegativos == Campos \ {"diferencia_goles"}

EstadisticasEquipo == [c \in Campos |-> 0]

\* rendimiento_* and promedio_* in hundredths, as round(x, 2) leaves them
CalcularDerivados(st) ==
    LET gen == IF st["partidos_jugados"] > 0
               THEN [st EXCEPT
                      !["rendimiento_general"] =
                          RoundDiv(st["puntos"] * 10000,
                                   st["partidos_jugados"] * PUNTOS_VICTORIA),
                      !["promedio_gf"] =
                          RoundDiv(st["goles_favor"] * 100, st["partidos_jugados"]),
                      !["promedio_gc"] =
                          RoundDiv(st["goles_contra"] * 100, st["partidos_jugados"])]
               ELSE st
        loc == IF st["pj_local"] > 0
               THEN [gen EXCEPT
                      !["rendimiento_local"] =
                          RoundDiv(st["pts_local"] * 10000,
                                   st["pj_local"] * PUNTOS_VICTORIA)]
               ELSE gen
    IN  IF st["pj_visita"] > 0
        THEN [loc EXCEPT
               !["rendimiento_visita"] =
                   RoundDiv(st["pts_visita"] * 10000,
                            st["pj_visita"] * PUNTOS_VICTORIA)]
        ELSE loc

Equipo(nombre, liga_id, season_id) ==
    [nombre |-> nombre, liga_id |-> liga_id, season_id |-> season_id,
     stats |-> [t \in TiposTiempo |-> EstadisticasEquipo]]

-----------------------------------------------------------------------------
(* stats_builder.py: the fold *)

\* one attribute assignment under validate_assignment=True: the new value is
\* validated first, and a failed validation leaves the field as it was
Asignar(par, quien, campo, delta) ==
    IF ~par.ok THEN par
    ELSE LET nuevo == par[quien][campo] + delta
         IN  IF campo \in CamposNoNegativos /\ nuevo < 0
             THEN [par EXCEPT !.ok = FALSE]
             ELSE [par EXCEPT ![quien][campo] = nuevo]

RECURSIVE AsignarTodo(_, _)
AsignarTodo(par, asignaciones) ==
    IF asignaciones = <<>> THEN par
    ELSE AsignarTodo(Asignar(par, asignaciones[1][1], asignaciones[1][2],
                             asignaciones[1][3]),
                     Tail(asignaciones))

\* the assignments of _actualizar_stats, in the order of the source
ActualizarStats(stats_local, stats_visita, goles_local, goles_visita) ==
    LET resultado == IF goles_local > goles_visita THEN "L"
                     ELSE IF goles_local = goles_visita THEN "E" ELSE "V"
        puntos_local == IF resultado = "L" THEN PUNTOS_VICTORIA
                        ELSE IF resultado = "E" THEN PUNTOS_EMPATE
                        ELSE PUNTOS_DERROTA
        puntos_visita == IF resultado = "L" THEN PUNTOS_DERROTA
                         ELSE IF resultado = "E" THEN PUNTOS_EMPATE
                         ELSE PUNTOS_VICTORIA
        asignaciones ==
            << <<"local", "partidos_jugados", 1>>,
               <<"local", "goles_favor", goles_local>>,
               <<"local", "goles_contra", goles_visita>>,
               <<"local", "diferencia_goles", goles_local - goles_visita>>,
               <<"local", "puntos", puntos_local>>,
               <<"local", "pj_local", 1>>,
               <<"local", "gf_local", goles_local>>,
               <<"local", "gc_local", goles_visita>>,
               <<"local", "pts_local", puntos_local>>,
               <<"local", IF resultado = "L" THEN "victorias"
                          ELSE IF resultado = "E" THEN "empates"
                          ELSE "derrotas", 1>>,
               <<"local", IF resultado = "L" THEN "v_local"
                          ELSE IF resultado = "E" THEN "e_local"
                          ELSE "d_local", 1>>,
               <<"visita", "partidos_jugados", 1>>,
               <<"visita", "goles_favor", goles_visita>>,
               <<"visita", "goles_contra", goles_local>>,
               <<"visita", "diferencia_goles", goles_visita - goles_local>>,
               <<"visita", "puntos", puntos_visita>>,
               <<"visita", "pj_visita", 1>>,
               <<"visita", "gf_visita", goles_visita>>,
               <<"visita", "gc_visita", goles_local>>,
               <<"visita", "pts_visita", puntos_visita>>,
               <<"visita", IF resultado = "V" THEN "victorias"
                           ELSE IF resultado = "E" THEN "empates"
                           ELSE "derrotas", 1>>,
               <<"visita", IF resultado = "V" THEN "v_visita"
                           ELSE IF resultado = "E" THEN "e_visita"
                           ELSE "d_visita", 1>> >>
    IN  AsignarTodo([local |-> stats_local, visita |-> stats_visita, ok |-> TRUE],
                    asignaciones)

\* position of the key f"{liga_id}_{nombre}" in the dict, 0 when absent
Indice(cache, liga_id, nombre) ==
    IF \E i \in 1..Len(cache) :
          cache[i].clave = <<liga_id, nombre>>
    THEN CHOOSE i \in 1..Len(cache) : cache[i].clave = <<liga_id, nombre>>
    ELSE 0

\* _obtener_o_crear_equipo: Equipo(nombre=...) has min_length=1
ObtenerOCrearEquipo(r, nombre, liga_id, season_id) ==
    IF ~r.ok THEN r
    ELSE IF Indice(r.cache, liga_id, nombre) # 0 THEN r
    ELSE IF nombre = "" THEN [r EXCEPT !.ok = FALSE]
    ELSE [r EXCEPT !.cache =
            Append(@, [clave |-> <<liga_id, nombre>>,
                       equipo |-> Equipo(nombre, liga_id, season_id)])]

\* a fold that leaves the second half out
ActualizarSinSegundoTiempo(r, il, iv, tipo, goles_local, goles_visita) ==
    IF ~r.ok \/ tipo = "segundo_tiempo" THEN r
    ELSE LET par == ActualizarStats(r.cache[il].equipo.stats[tipo],
                                    r.cache[iv].equipo.stats[tipo],
                                    goles_local, goles_visita)
         IN  [cache |-> [r.cache EXCEPT ![il].equipo.stats[tipo] = par.local,
                                        ![iv].equipo.stats[tipo] = par.visita],
              ok |-> par.ok]

\* one call of _actualizar_stats on the statistics of one time scope of the
\* two cached teams; the Equipo objects are mutated in place
ActualizarTiempo(r, il, iv, tipo, goles_local, goles_visita) ==
    IF ~r.ok THEN r
    ELSE LET par == ActualizarStats(r.cache[il].equipo.stats[tipo],
                                    r.cache[iv].equipo.stats[tipo],
                                    goles_local, goles_visita)
         IN  [cache |-> [r.cache EXCEPT ![il].equipo.stats[tipo] = par.local,
                                        ![iv].equipo.stats[tipo] = par.visita],
              ok |-> par.ok]

\* _procesar_partido on the dict `cache`; ok = FALSE when it raises, and
\* cache is then what the exception leaves behind
ProcesarPartido(cache, partido, liga_id, season_id) ==
    IF partido.equipo_local = SinClave \/ partido.equipo_visitante = SinClave
    THEN [cache |-> cache, ok |-> FALSE]
    ELSE
    LET r0 == [cache |-> cache, ok |-> TRUE]
        r1 == ObtenerOCrearEquipo(r0, partido.equipo_local, liga_id, season_id)
        r2 == ObtenerOCrearEquipo(r1, partido.equipo_visitante, liga_id, season_id)
    IN  IF ~r2.ok THEN r2
        ELSE
        LET il == Indice(r2.cache, liga_id, partido.equipo_local)
            iv == Indice(r2.cache, liga_id, partido.equipo_visitante)
            goles_local_2mt == partido.goles_local_TR - partido.goles_local_1MT
            goles_visita_2mt == partido.goles_visitante_TR - partido.goles_visitante_1MT
            r3 == ActualizarTiempo(r2, il, iv, "completo",
                                   partido.goles_local_TR, partido.goles_visitante_TR)
            r4 == ActualizarTiempo(r3, il, iv, "primer_tiempo",
                                   partido.goles_local_1MT, partido.goles_visitante_1MT)
        IN  ActualizarTiempo(r4, il, iv, "segundo_tiempo",
                             goles_local_2mt, goles_visita_2mt)

\* the loop `for partido in partidos` of construir_estadisticas: no
\* try/except surrounds the call, so the first exception ends the loop
RECURSIVE ProcesarPartidos(_, _, _, _)
ProcesarPartidos(r, partidos, liga_id, season_id) ==
    IF ~r.ok \/ partidos = <<>> THEN r
    ELSE ProcesarPartidos(ProcesarPartido(r.cache, partidos[1], liga_id, season_id),
                          Tail(partidos), liga_id, season_id)

\* the loop that calls calcular_derivados on the three statistics of each team
DerivarTodos(cache) ==
    [i \in 1..Len(cache) |->
        [cache[i] EXCEPT !.equipo.stats =
            [t \in TiposTiempo |-> CalcularDerivados(cache[i].equipo.stats[t])]]]

-----------------------------------------------------------------------------
(* stats_builder.py: construir_estadisticas, one invocation per task.      *)
(* The coroutine is cut at its awaits: the find of the matches and each    *)
(* update_one of _guardar_estadisticas.  `await self._procesar_partido`    *)
(* never suspends (the coroutine awaits nothing), so the whole fold, the   *)
(* derived fields and the first step of the save loop run without yielding.*)

\* no validar_pronostico call has been made
SinValidacion == [pronostico_id |-> 0, estado |-> "", goles |-> <<>>, tiempos |-> <<>>]

\* the collections of forecasts and validations are empty and no request is
\* in flight
InitSinPronosticos ==
    /\ predictions = {}
    /\ validations = <<>>
    /\ peticion = <<>>
    /\ devueltos = {}
    /\ validacion = SinValidacion
    /\ uuids = 0

\* no call of the forecast engine has been made
MotorInactivo == [llamada |-> "", entrada |-> <<>>, salida |-> <<>>]

\* no call of the validation statistics, the backtesting, the classification,
\* the recent form or the database manager has been made
ServicioInactivo == [llamada |-> "", entrada |-> <<>>, salida |-> <<>>]

TareaInactiva ==
    [pc |-> "idle", season_id |-> "", estado |-> "",
     it_viva |-> FALSE, it_dict |-> <<>>, it_size |-> 0, it_pos |-> 0,
     pendiente |-> <<>>, retorno |-> <<>>]

Tareas == DOMAIN tarea

\* the find of construir_estadisticas: liga_id and season_id, sorted by fecha
PartidosDe(liga_id, season_id) ==
    SelectSeq(football_matches,
              LAMBDA p : p.liga_id = liga_id /\ p.season_id = season_id)

\* the upsert that the save loop issues for the item at position i of `dict`:
\* equipo.model_dump() is taken when the call is made
Pendiente(dict, i, liga_id, season_id) ==
    << [nombre |-> dict[i].equipo.nombre, liga_id |-> liga_id,
        season_id |-> season_id, doc |-> dict[i].equipo] >>

\* lines 153-184: the cache is replaced by a fresh dict, then the find is
\* awaited.  A save loop that iterates the replaced dict keeps that object.
IniciarConstruccion(t, s) ==
    /\ tarea[t].pc = "idle"
    /\ \A u \in Tareas \ {t} : tarea[u].pc # "idle" => tarea[u].season_id # s
    /\ equipos_cache' = <<>>
    /\ tarea' = [u \in Tareas |->
                   IF u = t
                   THEN [TareaInactiva EXCEPT !.pc = "find", !.season_id = s]
                   ELSE IF tarea[u].pc = "guardar" /\ tarea[u].it_viva
                   THEN [tarea[u] EXCEPT !.it_viva = FALSE,
                                         !.it_dict = equipos_cache]
                   ELSE tarea[u]]
    /\ UNCHANGED <<football_matches, team_statistics, consulta>>

\* lines 186-209 and 449-468 up to the first update_one
ProcesarYDerivar(t) ==
    /\ tarea[t].pc = "find"
    /\ LET partidos == PartidosDe(LIGA, tarea[t].season_id)
           r == ProcesarPartidos([cache |-> equipos_cache, ok |-> TRUE],
                                 partidos, LIGA, tarea[t].season_id)
           derivado == DerivarTodos(r.cache)
       IN  IF partidos = <<>>
           THEN /\ tarea' = [tarea EXCEPT ![t].pc = "fin",
                                          ![t].estado = "sin_partidos"]
                /\ UNCHANGED equipos_cache
           ELSE IF ~r.ok
           THEN /\ tarea' = [tarea EXCEPT ![t].pc = "fin",
                                          ![t].estado = "abortado"]
                /\ equipos_cache' = r.cache
           ELSE /\ equipos_cache' = derivado
                /\ tarea' = [tarea EXCEPT
                       ![t].pc = "guardar",
                       ![t].it_viva = TRUE,
                       ![t].it_size = Len(derivado),
                       ![t].it_pos = 1,
                       ![t].pendiente =
                           Pendiente(derivado, 1, LIGA, tarea[t].season_id)]
    /\ UNCHANGED <<football_matches, team_statistics, consulta>>

\* update_one(upsert_query, {"$set": equipo_dict}, upsert=True): the $set
\* writes every field of the document, the query fields included
Upsert(coleccion, q, elegido) ==
    (coleccion \ elegido) \cup {q.doc}

Coinciden(coleccion, q) ==
    {d \in coleccion : /\ d.nombre = q.nombre
                       /\ d.liga_id = q.liga_id
                       /\ d.season_id = q.season_id}

\* lines 451-474 and 211-212: an update_one completes, and the loop asks the
\* dict iterator for the next item
GuardarPaso(t) ==
    /\ tarea[t].pc = "guardar"
    /\ LET q == tarea[t].pendiente[1]
           hay == Coinciden(team_statistics, q)
       IN  \/ /\ hay = {}
              /\ team_statistics' = Upsert(team_statistics, q, {})
           \/ \E d \in hay : team_statistics' = Upsert(team_statistics, q, {d})
    /\ LET dict == IF tarea[t].it_viva THEN equipos_cache ELSE tarea[t].it_dict
           i == tarea[t].it_pos + 1
       IN  IF Len(dict) # tarea[t].it_size
           THEN \* RuntimeError: dictionary changed size during iteration
                tarea' = [tarea EXCEPT ![t].pc = "fin",
                                       ![t].estado = "runtime_error",
                                       ![t].pendiente = <<>>]
           ELSE IF i > Len(dict)
           THEN \* return self.equipos_cache
                tarea' = [tarea EXCEPT ![t].pc = "fin",
                                       ![t].estado = "ok",
                                       ![t].pendiente = <<>>,
                                       ![t].retorno = equipos_cache]
           ELSE tarea' = [tarea EXCEPT
                    ![t].it_pos = i,
                    ![t].pendiente =
                        Pendiente(dict, i, LIGA, tarea[t].season_id)]
    /\ UNCHANGED <<football_matches, equipos_cache, consulta>>

\* the caller takes the result; the task may be used for another build
Terminar(t) ==
    /\ tarea[t].pc = "fin"
    /\ tarea' = [tarea EXCEPT ![t] = TareaInactiva]
    /\ UNCHANGED <<football_matches, team_statistics, equipos_cache, consulta>>

\* obtener_stats_equipo(nombre, LIGA, season_id=s), called while no build is
\* in flight.  Every stored document carries season_id, so the legacy branch
\* of the $or (documents without season_id) selects nothing.
ObtenerStatsEquipo(nombre, s) ==
    /\ \A t \in Tareas : tarea[t].pc = "idle"
    /\ LET i == Indice(equipos_cache, LIGA, nombre)
           hay == Coinciden(team_statistics,
                            [nombre |-> nombre, liga_id |-> LIGA, season_id |-> s])
       IN  IF i # 0
           THEN /\ consulta' = [nombre |-> nombre, season_id |-> s,
                                resultado |-> <<equipos_cache[i].equipo>>]
                /\ UNCHANGED equipos_cache
           ELSE IF hay # {}
           THEN \E d \in hay :
                  /\ equipos_cache' =
                        Append(equipos_cache,
                               [clave |-> <<LIGA, nombre>>, equipo |-> d])
                  /\ consulta' = [nombre |-> nombre, season_id |-> s,
                                  resultado |-> <<d>>]
           ELSE /\ consulta' = [nombre |-> nombre, season_id |-> s,
                                resultado |-> <<>>]
                /\ UNCHANGED equipos_cache
    /\ UNCHANGED <<football_matches, team_statistics, tarea>>

NombresConsulta == {"A", "B"}

\* no match is stored and no build has run
InitSinConstrucciones ==
    /\ football_matches = <<>>
    /\ team_statistics = {}
    /\ equipos_cache = <<>>
    /\ tarea = <<>>
    /\ consulta = [nombre |-> "", season_id |-> "", resultado |-> <<>>]

InitStats(tareas, partidos) ==
    /\ football_matches \in SeqsHasta(partidos, MaxPartidos)
    /\ team_statistics = {}
    /\ equipos_cache = <<>>
    /\ tarea = [t \in tareas |-> TareaInactiva]
    /\ consulta = [nombre |-> "", season_id |-> "", resultado |-> <<>>]
    /\ motor = MotorInactivo
    /\ InitSinPronosticos
    /\ servicio = ServicioInactivo

NextStats ==
    /\ \/ \E t \in Tareas, s \in Temporadas : IniciarConstruccion(t, s)
       \/ \E t \in Tareas : ProcesarYDerivar(t)
       \/ \E t \in Tareas : GuardarPaso(t)
       \/ \E t \in Tareas : Terminar(t)
       \/ \E n \in NombresConsulta, s \in Temporadas : ObtenerStatsEquipo(n, s)
    /\ UNCHANGED <<varsMotor, varsPron, varsServicio>>

\* one caller: builds and retrievals follow one another
InitSeq == InitStats({1}, PartidosPosibles)
SpecStats == InitSeq /\ [][NextStats]_vars

\* two callers of construir_estadisticas on the same StatsBuilder, one build
\* each, of different seasons
InitConc == InitStats({1, 2}, PartidosValidos)

NextConc ==
    /\ \/ \E t \in Tareas, s \in Temporadas : IniciarConstruccion(t, s)
       \/ \E t \in Tareas : ProcesarYDerivar(t)
       \/ \E t \in Tareas : GuardarPaso(t)
    /\ UNCHANGED <<varsMotor, varsPron, varsServicio>>

SpecConc == InitConc /\ [][NextConc]_vars

\* construir_estadisticas(LIGA, s) run alone on a StatsBuilder of its own
SoloConstruccion(s) ==
    LET r == ProcesarPartidos([cache |-> <<>>, ok |-> TRUE],
                              PartidosDe(LIGA, s), LIGA, s)
    IN  [ok |-> r.ok, cache |-> DerivarTodos(r.cache)]

-----------------------------------------------------------------------------
(* Part II.  prediction_engine.py: the forecast of one time scope.         *)
(* Percentages are integers in hundredths of a percent, as round(x, 2)     *)
(* leaves them; strength factors are in thousandths, so that the product   *)
(* of an integer factor and a historical factor is exact.                  *)

\* <<q, r>> with a * b = q * d + r and 0 <= r < d, for 0 <= a < d < 2^30;
\* formed by doubling so that no intermediate value exceeds 2 * d
RECURSIVE MulDivQR(_, _, _)
MulDivQR(a, b, d) ==
    IF b = 0 THEN <<0, 0>>
    ELSE LET h == MulDivQR(a, b \div 2, d)
             r1 == 2 * h[2]
             c1 == IF r1 >= d THEN 1 ELSE 0
             r2 == (r1 - c1 * d) + (b % 2) * a
             c2 == IF r2 >= d THEN 1 ELSE 0
         IN  <<2 * h[1] + c1 + c2, r2 - c2 * d>>

\* round(a * b / d) to the nearest integer, ties to even
RoundMulDiv(a, b, d) ==
    LET qr == MulDivQR(a % d, b, d)
        q == (a \div d) * b + qr[1]
    IN  IF 2 * qr[2] > d \/ (2 * qr[2] = d /\ q % 2 = 1) THEN q + 1 ELSE q

MIN_PARTIDOS_CONFIABLE == 5

PROMEDIOS_POR_DEFECTO == [prob_local |-> 4400, prob_empate |-> 2800, prob_visita |-> 2800]

\* Umbrales, in hundredths of a percent
PROB_LOCAL_MIN == 4300
PROB_LOCAL_MAX == 6950
PROB_EMPATE_MAX == 2000
DIFERENCIA_EMPATE == 1000
SUMA_PROB_MIN == 11600
FACTOR_5_MIN == 8000
FACTOR_4_MIN == 6000
FACTOR_3_MIN == 4000
FACTOR_2_MIN == 2000

Probabilidades(l, e, v) ==
    [porcentaje_local |-> l, porcentaje_empate |-> e, porcentaje_visita |-> v]

Suma(p) == p.porcentaje_local + p.porcentaje_empate + p.porcentaje_visita

\* _calcular_probabilidades.  With total = rend_local + rend_visita,
\*   factor_empate = max(0, 30 - 100 * |rend_local - rend_visita| / total)
\*                 = empate_n / total hundredths,
\*   resto = resto_n / total hundredths,
\*   prob_local = prob_local_base * resto / 100 = rend_local * resto_n / total^2,
\* and suma = prob_local + prob_empate + prob_visita is 100, so that the
\* division by suma leaves the three values as they are before the rounding.
CalcularProbabilidades(stats_local, stats_visitante) ==
    LET rend_local == IF stats_local["pj_local"] < MIN_PARTIDOS_CONFIABLE
                      THEN PROMEDIOS_POR_DEFECTO.prob_local
                      ELSE stats_local["rendimiento_local"]
        rend_visita == IF stats_visitante["pj_visita"] < MIN_PARTIDOS_CONFIABLE
                       THEN PROMEDIOS_POR_DEFECTO.prob_visita
                       ELSE stats_visitante["rendimiento_visita"]
        total == rend_local + rend_visita
        empate_n == Max(0, 3000 * total - 10000 * Abs(rend_local - rend_visita))
        resto_n == 10000 * total - empate_n
    IN  IF total = 0
        THEN Probabilidades(PROMEDIOS_POR_DEFECTO.prob_local,
                            PROMEDIOS_POR_DEFECTO.prob_empate,
                            PROMEDIOS_POR_DEFECTO.prob_visita)
        ELSE Probabilidades(RoundMulDiv(rend_local, resto_n, total * total),
                            RoundDiv(empate_n, total),
                            RoundMulDiv(rend_visita, resto_n, total * total))

\* _calcular_factor_ajuste
CalcularFactorAjuste(rendimiento) ==
    IF rendimiento > FACTOR_5_MIN THEN 5
    ELSE IF rendimiento > FACTOR_4_MIN THEN 4
    ELSE IF rendimiento > FACTOR_3_MIN THEN 3
    ELSE IF rendimiento > FACTOR_2_MIN THEN 2
    ELSE 1

\* the adjusted values rounded as they are, not divided by their total
SinNormalizar(p_local, p_empate, p_visita) ==
    Probabilidades(RoundDiv(p_local, 100), RoundDiv(p_empate, 100),
                   RoundDiv(p_visita, 100))

\* the last lines of _ajustar_por_forma_reciente: the three adjusted values
\* (in 1/10000 of a percent) divided by their total, times 100, rounded
NormalizarForma(p_local, p_empate, p_visita) ==
    LET total == p_local + p_empate + p_visita
    IN  Probabilidades(RoundMulDiv(p_local, 10000, total),
                       RoundMulDiv(p_empate, 10000, total),
                       RoundMulDiv(p_visita, 10000, total))

\* _ajustar_por_forma_reciente, in 1/10000 of a percent:
\* ajuste = (rendimiento - 50) / 50 * PESO_FORMA_RECIENTE * 10 percent
AjustarPorFormaReciente(probabilidades, forma_local, forma_visitante) ==
    LET ajuste_local == 6 * (forma_local.rendimiento - 5000)
        ajuste_visitante == 6 * (forma_visitante.rendimiento - 5000)
        p_local_ajustado ==
            Max(50000, Min(900000, 100 * probabilidades.porcentaje_local + ajuste_local))
        p_visita_ajustado ==
            Max(50000, Min(900000, 100 * probabilidades.porcentaje_visita + ajuste_visitante))
        p_empate_ajustado ==
            Max(50000, Min(500000, 1000000 - p_local_ajustado - p_visita_ajustado))
    IN  NormalizarForma(p_local_ajustado, p_empate_ajustado, p_visita_ajustado)

\* calcular_factor_historico: factor = 0.9 + rendimiento_general / 500, in
\* thousandths, when more than one season was used; hist is <<>> for None.
\* rendimiento_general is taken on the grid of 0.5 percent.
FactorTemporadas(hist) ==
    IF hist # <<>> /\ hist[1].temporadas_usadas > 1
    THEN 900 + hist[1].rendimiento_general \div 50
    ELSE 1000

FactoresHistoricos(hist_local, hist_visita, h2h) ==
    [factor_local |-> FactorTemporadas(hist_local),
     factor_visita |-> FactorTemporadas(hist_visita),
     h2h |-> h2h]

\* _ajustar_por_historico.  porcentaje_eq1/eq2/empate of the head-to-head
\* record are in tenths of a percent, as round(x, 1) leaves them; the mixed
\* values are in fifths of a hundredth, the weighted ones in 1/5000 of that.
AjustarPorHistorico(probabilidades, factores_historicos) ==
    LET h2h == factores_historicos.h2h
        mezcla == h2h.tiene_historial /\ h2h.total_partidos >= 3
        p_local == IF mezcla
                   THEN 4 * probabilidades.porcentaje_local + 10 * h2h.porcentaje_eq1
                   ELSE 5 * probabilidades.porcentaje_local
        p_visita == IF mezcla
                    THEN 4 * probabilidades.porcentaje_visita + 10 * h2h.porcentaje_eq2
                    ELSE 5 * probabilidades.porcentaje_visita
        p_empate == IF mezcla
                    THEN 4 * probabilidades.porcentaje_empate + 10 * h2h.porcentaje_empate
                    ELSE 5 * probabilidades.porcentaje_empate
        w_local == p_local * factores_historicos.factor_local
        w_visita == p_visita * factores_historicos.factor_visita
        w_empate == p_empate * 1000
        total == w_local + w_empate + w_visita
    IN  Probabilidades(RoundMulDiv(w_local, 10000, total),
                       RoundMulDiv(w_empate, 10000, total),
                       RoundMulDiv(w_visita, 10000, total))

\* a decision that is the largest value alone
DecisionPorMayor(probabilidades, factor_local, factor_visita) ==
    LET l == 5 * probabilidades.porcentaje_local + (factor_local - 3000)
        v == 5 * probabilidades.porcentaje_visita + (factor_visita - 3000)
        e == 5 * probabilidades.porcentaje_empate
    IN  IF l >= v /\ l >= e THEN "L" ELSE IF v >= l /\ v >= e THEN "V" ELSE "E"

\* a decision that is always the home team
DecisionSiempreLocal(probabilidades, factor_local, factor_visita) == "L"

\* a double chance that leaves the draw out from a sum of 80 on
DobleDesdeOchenta(pronostico, probabilidades) ==
    IF probabilidades.porcentaje_local + probabilidades.porcentaje_visita > 8000
    THEN "12"
    ELSE IF pronostico = "L" THEN "1X"
    ELSE IF pronostico = "V" THEN "X2"
    ELSE IF probabilidades.porcentaje_local > probabilidades.porcentaje_visita
    THEN "1X"
    ELSE "X2"

\* _aplicar_algoritmo_decision; factor_local and factor_visita in thousandths,
\* the adjusted percentages in fifths of a hundredth:
\* (factor - 3) * 2 percent = (factor_m - 3000) / 5 hundredths
AplicarAlgoritmoDecision(probabilidades, factor_local, factor_visita) ==
    LET p_empate == probabilidades.porcentaje_empate
        p_local_ajustado == 5 * probabilidades.porcentaje_local + (factor_local - 3000)
        p_visita_ajustado == 5 * probabilidades.porcentaje_visita + (factor_visita - 3000)
    IN  IF /\ 5 * PROB_LOCAL_MIN < p_local_ajustado
           /\ p_local_ajustado < 5 * PROB_LOCAL_MAX
           /\ p_empate < PROB_EMPATE_MAX
        THEN "L"
        ELSE IF p_local_ajustado >= 5 * PROB_LOCAL_MAX THEN "L"
        ELSE IF /\ p_local_ajustado < 5 * PROB_LOCAL_MIN
                /\ p_visita_ajustado > p_local_ajustado
        THEN "V"
        ELSE IF /\ p_empate >= PROB_EMPATE_MAX
                /\ Abs(p_local_ajustado - p_visita_ajustado) < 5 * DIFERENCIA_EMPATE
        THEN "E"
        ELSE IF /\ p_local_ajustado >= p_visita_ajustado
                /\ p_local_ajustado >= 5 * p_empate
        THEN "L"
        ELSE IF /\ p_visita_ajustado >= p_local_ajustado
                /\ p_visita_ajustado >= 5 * p_empate
        THEN "V"
        ELSE "E"

\* the pick that leaves the draw out, whatever the primary pick
SiempreLocalVisita(pronostico, probabilidades) == "12"

\* _generar_doble_oportunidad
GenerarDobleOportunidad(pronostico, probabilidades) ==
    IF probabilidades.porcentaje_local + probabilidades.porcentaje_visita > SUMA_PROB_MIN
    THEN "12"
    ELSE IF pronostico = "L" THEN "1X"
    ELSE IF pronostico = "V" THEN "X2"
    ELSE IF probabilidades.porcentaje_local > probabilidades.porcentaje_visita
    THEN "1X"
    ELSE "X2"

\* _calcular_confianza, in hundredths of a percent; the factors are in
\* thousandths and the sum is taken in thousandths of a percent
CalcularConfianza(probabilidades, pronostico, factor_local, factor_visita) ==
    LET p_local == probabilidades.porcentaje_local
        p_empate == probabilidades.porcentaje_empate
        p_visita == probabilidades.porcentaje_visita
        confianza_base == IF pronostico = "L" THEN p_local
                          ELSE IF pronostico = "V" THEN p_visita
                          ELSE p_empate
        primero == Max(p_local, Max(p_empate, p_visita))
        ultimo == Min(p_local, Min(p_empate, p_visita))
        segundo == p_local + p_empate + p_visita - primero - ultimo
        ajuste_claridad == Min((primero - segundo) * 5, 15000)
        ajuste_factor == IF pronostico = "L" THEN (factor_local - factor_visita) * 2
                         ELSE IF pronostico = "V"
                         THEN (factor_visita - factor_local) * 2
                         ELSE -Abs(factor_local - factor_visita)
        confianza == confianza_base * 10 + ajuste_claridad + ajuste_factor
    IN  RoundDiv(Max(0, Min(100000, confianza)), 10)

\* PronosticoTiempo declares factor_local and factor_visita as int with ge=1
\* and le=5: a float is accepted only when it has no fractional part
FactorValido(factor) == factor % 1000 = 0 /\ factor \in 1000..5000

\* _generar_pronostico_tiempo; forma_* and factores_historicos are <<>> for
\* None.  p1, p3 and p4 are what the steps 1, 3 and 4 returned; ok tells
\* whether the PronosticoTiempo(...) at the end was built or raised.
GenerarPronosticoTiempo(stats_local, stats_visitante, forma_local, forma_visitante, factores_historicos) ==
    LET p1 == CalcularProbabilidades(stats_local, stats_visitante)
        f_local == CalcularFactorAjuste(stats_local["rendimiento_local"])
        f_visita == CalcularFactorAjuste(stats_visitante["rendimiento_visita"])
        con_forma == forma_local # <<>> /\ forma_visitante # <<>>
        p3 == IF con_forma
              THEN AjustarPorFormaReciente(p1, forma_local[1], forma_visitante[1])
              ELSE p1
        con_historico == factores_historicos # <<>>
        p4 == IF con_historico
              THEN AjustarPorHistorico(p3, factores_historicos[1])
              ELSE p3
        factor_local == IF con_historico
                        THEN f_local * factores_historicos[1].factor_local
                        ELSE f_local * 1000
        factor_visita == IF con_historico
                         THEN f_visita * factores_historicos[1].factor_visita
                         ELSE f_visita * 1000
        pronostico == AplicarAlgoritmoDecision(p4, factor_local, factor_visita)
    IN  [p1 |-> <<p1>>,
         p3 |-> IF con_forma THEN <<p3>> ELSE <<>>,
         p4 |-> IF con_historico THEN <<p4>> ELSE <<>>,
         probabilidades |-> p4,
         factor_local |-> factor_local,
         factor_visita |-> factor_visita,
         pronostico |-> pronostico,
         doble_oportunidad |-> GenerarDobleOportunidad(pronostico, p4),
         confianza |-> CalcularConfianza(p4, pronostico, factor_local, factor_visita),
         ok |-> FactorValido(factor_local) /\ FactorValido(factor_visita)]

-----------------------------------------------------------------------------
(* The forecast of one time scope, called on the statistics, the recent    *)
(* form and the historical factors that the engine can read from the store.*)

\* <<played, points>> of a team in one context: too few matches for its own
\* performance to be used, none, and performances on both sides of the
\* thresholds
Registros ==
    {<<0, 0>>, <<4, 12>>, <<5, 0>>, <<5, 3>>, <<5, 8>>, <<5, 15>>,
     <<6, 9>>, <<6, 10>>}

\* the statistics of a team with the home record reg_local and the away
\* record reg_visita
StatsDe(reg_local, reg_visita) ==
    CalcularDerivados(
        [EstadisticasEquipo EXCEPT
            !["partidos_jugados"] = reg_local[1] + reg_visita[1],
            !["puntos"] = reg_local[2] + reg_visita[2],
            !["pj_local"] = reg_local[1], !["pts_local"] = reg_local[2],
            !["pj_visita"] = reg_visita[1], !["pts_visita"] = reg_visita[2]])

\* what obtener_forma_reciente returns: rendimiento = round(points / (3 n) * 100, 2)
\* over the last n <= 5 matches, 0.0 without matches; <<>> is None
FormasPosibles ==
    {<<>>} \cup {<<[rendimiento |-> r]>> : r \in {0, 5333, 10000}}

\* what obtener_stats_historicas returns; <<>> is None
HistoricosLocal ==
    {<<>>} \cup {<<[temporadas_usadas |-> h[1], rendimiento_general |-> h[2]]>> :
                    h \in {<<1, 7500>>, <<2, 5000>>, <<2, 7500>>, <<3, 0>>}}

HistoricosVisita ==
    {<<>>} \cup {<<[temporadas_usadas |-> h[1], rendimiento_general |-> h[2]]>> :
                    h \in {<<3, 10000>>}}

\* what obtener_h2h returns
H2HPosibles ==
    {[tiene_historial |-> FALSE, total_partidos |-> 0,
      porcentaje_eq1 |-> 0, porcentaje_eq2 |-> 0, porcentaje_empate |-> 0],
     [tiene_historial |-> TRUE, total_partidos |-> 3,
      porcentaje_eq1 |-> 667, porcentaje_eq2 |-> 0, porcentaje_empate |-> 333],
     [tiene_historial |-> TRUE, total_partidos |-> 10,
      porcentaje_eq1 |-> 0, porcentaje_eq2 |-> 1000, porcentaje_empate |-> 0]}

\* factores_historicos of generar_pronostico: None when usar_historico is off
\* or calcular_factor_historico raised
FactoresPosibles ==
    {<<>>} \cup {<<FactoresHistoricos(hl, hv, h)>> :
                    hl \in HistoricosLocal, hv \in HistoricosVisita,
                    h \in H2HPosibles}

\* percentages that a Probabilidades object accepts (each between 0 and 100)
PorcentajesDirectos == {0, 2000, 4000, 5800, 6000, 10000}

\* the arguments of a call of _generar_pronostico_tiempo
EntradasPronosticoTiempo ==
    [reg_local : Registros, reg_visita : Registros,
     forma_local : FormasPosibles, forma_visitante : FormasPosibles,
     factores_historicos : FactoresPosibles]

\* the arguments of a call of _generar_doble_oportunidad
EntradasDobleOportunidad ==
    [pronostico : {"L", "E", "V"},
     probabilidades : {Probabilidades(l, e, v) : l \in PorcentajesDirectos,
                                                 e \in PorcentajesDirectos,
                                                 v \in PorcentajesDirectos}]

\* a call of _generar_pronostico_tiempo returns or raises
LlamarGenerarPronosticoTiempo ==
    /\ motor.llamada = "_generar_pronostico_tiempo"
    /\ motor.salida = <<>>
    /\ motor' = [motor EXCEPT !.salida =
                    <<GenerarPronosticoTiempo(
                          StatsDe(motor.entrada.reg_local, <<0, 0>>),
                          StatsDe(<<0, 0>>, motor.entrada.reg_visita),
                          motor.entrada.forma_local, motor.entrada.forma_visitante,
                          motor.entrada.factores_historicos)>>]
    /\ UNCHANGED <<varsStats, varsPron, varsServicio>>

\* a call of _generar_doble_oportunidad returns
LlamarGenerarDobleOportunidad ==
    /\ motor.llamada = "_generar_doble_oportunidad"
    /\ motor.salida = <<>>
    /\ motor' = [motor EXCEPT !.salida =
                    <<[pronostico |-> motor.entrada.pronostico,
                       doble_oportunidad |->
                           GenerarDobleOportunidad(motor.entrada.pronostico,
                                                   motor.entrada.probabilidades)]>>]
    /\ UNCHANGED <<varsStats, varsPron, varsServicio>>

InitMotor ==
    /\ InitSinConstrucciones
    /\ InitSinPronosticos
    /\ servicio = ServicioInactivo
    /\ \/ \E e \in EntradasPronosticoTiempo :
            motor = [llamada |-> "_generar_pronostico_tiempo",
                     entrada |-> e, salida |-> <<>>]
       \/ \E e \in EntradasDobleOportunidad :
            motor = [llamada |-> "_generar_doble_oportunidad",
                     entrada |-> e, salida |-> <<>>]

NextMotor ==
    \/ LlamarGenerarPronosticoTiempo
    \/ LlamarGenerarDobleOportunidad

SpecMotor == InitMotor /\ [][NextMotor]_vars

-----------------------------------------------------------------------------
(* Part III.  generar_pronostico and validar_pronostico on the predictions *)
(* and validations collections.                                            *)

\* the most Pronostico objects created in a behaviour
MaxPronosticos == 2

\* the most documents the validations collection holds
MaxValidaciones == 1

\* an insert that leaves the collection as it was
SinInsertar(coleccion, documento) == coleccion

\* collection.insert_one(documento)
InsertOne(coleccion, documento) == coleccion \cup {documento}

\* collection.find_one({"id": pronostico_id}): <<>> is None
FindOne(coleccion, pronostico_id) ==
    IF \E d \in coleccion : d.id = pronostico_id
    THEN <<CHOOSE d \in coleccion : d.id = pronostico_id>>
    ELSE <<>>

\* <<local, visitante>> of the requests, all of league LIGA and season S1
PartidosPedidos == {<<"A", "B">>}

\* the <<played, points>> records of a team in the three time scopes
RegistrosPorTiempo(tc, mt1, mt2) ==
    [completo |-> tc, primer_tiempo |-> mt1, segundo_tiempo |-> mt2]

\* what the reads of generar_pronostico find in the store: the statistics of
\* the two teams (<<>> when obtener_stats_equipo returns None), their recent
\* form and the historical factors
LecturasPosibles ==
    {\* the home team has no statistics
     [stats_local |-> <<>>,
      stats_visitante |-> <<RegistrosPorTiempo(<<5, 8>>, <<5, 8>>, <<5, 8>>)>>,
      forma_local |-> <<[rendimiento |-> 0]>>,
      forma_visitante |-> <<[rendimiento |-> 5333]>>,
      factores_historicos |-> <<>>],
     \* level teams, a strong home team in the second half
     [stats_local |-> <<RegistrosPorTiempo(<<5, 8>>, <<6, 9>>, <<5, 15>>)>>,
      stats_visitante |-> <<RegistrosPorTiempo(<<5, 8>>, <<6, 9>>, <<5, 3>>)>>,
      forma_local |-> <<[rendimiento |-> 5333]>>,
      forma_visitante |-> <<[rendimiento |-> 5333]>>,
      factores_historicos |-> <<>>],
     \* a strong away team, one season of history and a head-to-head record
     [stats_local |-> <<RegistrosPorTiempo(<<5, 3>>, <<5, 0>>, <<6, 9>>)>>,
      stats_visitante |-> <<RegistrosPorTiempo(<<5, 15>>, <<6, 10>>, <<6, 9>>)>>,
      forma_local |-> <<[rendimiento |-> 0]>>,
      forma_visitante |-> <<[rendimiento |-> 10000]>>,
      factores_historicos |->
          <<FactoresHistoricos(
                <<[temporadas_usadas |-> 1, rendimiento_general |-> 7500]>>, <<>>,
                [tiene_historial |-> TRUE, total_partidos |-> 3,
                 porcentaje_eq1 |-> 667, porcentaje_eq2 |-> 0,
                 porcentaje_empate |-> 333])>>],
     \* two seasons of history of the home team
     [stats_local |-> <<RegistrosPorTiempo(<<5, 8>>, <<5, 8>>, <<5, 8>>)>>,
      stats_visitante |-> <<RegistrosPorTiempo(<<5, 8>>, <<5, 8>>, <<5, 8>>)>>,
      forma_local |-> <<[rendimiento |-> 5333]>>,
      forma_visitante |-> <<[rendimiento |-> 5333]>>,
      factores_historicos |->
          <<FactoresHistoricos(
                <<[temporadas_usadas |-> 2, rendimiento_general |-> 7500]>>, <<>>,
                [tiene_historial |-> FALSE, total_partidos |-> 0,
                 porcentaje_eq1 |-> 0, porcentaje_eq2 |-> 0,
                 porcentaje_empate |-> 0])>>]}

PeticionInactiva == [pc |-> "idle", pronostico |-> <<>>, error |-> ""]

Peticiones == DOMAIN peticion

\* the three _generar_pronostico_tiempo calls of generar_pronostico
PronosticosPorTiempo(lectura) ==
    [t \in TiposTiempo |->
        GenerarPronosticoTiempo(StatsDe(lectura.stats_local[1][t], <<0, 0>>),
                                StatsDe(<<0, 0>>, lectura.stats_visitante[1][t]),
                                lectura.forma_local, lectura.forma_visitante,
                                lectura.factores_historicos)]

\* the same, tabulated over the reads of the model
PronosticosDeLectura ==
    [l \in {x \in LecturasPosibles : x.stats_local # <<>> /\ x.stats_visitante # <<>>}
        |-> PronosticosPorTiempo(l)]

\* Pronostico(...): the id is a fresh uuid4; the factors are stored as the
\* integers that the validation of PronosticoTiempo made of them
Pronostico(id, equipo_local, equipo_visitante, liga_id, season_id, tiempos) ==
    [id |-> id, equipo_local |-> equipo_local,
     equipo_visitante |-> equipo_visitante,
     liga_id |-> liga_id, season_id |-> season_id,
     tiempos |-> [t \in TiposTiempo |->
                    [pronostico |-> tiempos[t].pronostico,
                     doble_oportunidad |-> tiempos[t].doble_oportunidad,
                     probabilidades |-> tiempos[t].probabilidades,
                     factor_local |-> tiempos[t].factor_local \div 1000,
                     factor_visita |-> tiempos[t].factor_visita \div 1000]]]

\* generar_pronostico, lines 164-244: the reads, the three forecasts and the
\* Pronostico object; what is left is the await of _guardar_pronostico
GenerarPronostico(t, partido, lectura) ==
    /\ peticion[t].pc = "idle"
    /\ uuids < MaxPronosticos
    /\ IF lectura.stats_local = <<>> \/ lectura.stats_visitante = <<>>
       THEN /\ peticion' = [peticion EXCEPT ![t].pc = "error",
                                            ![t].error = "ValueError"]
            /\ UNCHANGED uuids
       ELSE LET tiempos == PronosticosDeLectura[lectura]
            IN  IF \E tt \in TiposTiempo : ~tiempos[tt].ok
                THEN /\ peticion' = [peticion EXCEPT ![t].pc = "error",
                                                     ![t].error = "ValidationError"]
                     /\ UNCHANGED uuids
                ELSE /\ uuids' = uuids + 1
                     /\ peticion' = [peticion EXCEPT
                            ![t].pc = "guardar",
                            ![t].pronostico =
                                <<Pronostico(uuids + 1, partido[1], partido[2],
                                             LIGA, "S1", tiempos)>>]
    /\ UNCHANGED <<predictions, validations, devueltos, validacion>>
    /\ UNCHANGED <<varsStats, varsMotor, varsServicio>>

\* _guardar_pronostico: the insert_one completes
GuardarPronostico(t) ==
    /\ peticion[t].pc = "guardar"
    /\ predictions' = InsertOne(predictions, peticion[t].pronostico[1])
    /\ peticion' = [peticion EXCEPT ![t].pc = "guardado"]
    /\ UNCHANGED <<validations, devueltos, validacion, uuids>>
    /\ UNCHANGED <<varsStats, varsMotor, varsServicio>>

\* _guardar_pronostico: the insert_one raises, and the exception leaves
\* generar_pronostico
FallarGuardado(t) ==
    /\ peticion[t].pc = "guardar"
    /\ peticion' = [peticion EXCEPT ![t].pc = "error", ![t].error = "PyMongoError"]
    /\ UNCHANGED <<predictions, validations, devueltos, validacion, uuids>>
    /\ UNCHANGED <<varsStats, varsMotor, varsServicio>>

\* line 252: return pronostico
DevolverPronostico(t) ==
    /\ peticion[t].pc = "guardado"
    /\ devueltos' = devueltos \cup {peticion[t].pronostico[1]}
    /\ peticion' = [peticion EXCEPT ![t].pc = "devuelto"]
    /\ UNCHANGED <<predictions, validations, validacion, uuids>>
    /\ UNCHANGED <<varsStats, varsMotor, varsServicio>>

\* the caller has the forecast or the exception and may ask again
NuevaPeticion(t) ==
    /\ peticion[t].pc \in {"devuelto", "error"}
    /\ peticion' = [peticion EXCEPT ![t] = PeticionInactiva]
    /\ UNCHANGED <<predictions, validations, devueltos, validacion, uuids>>
    /\ UNCHANGED <<varsStats, varsMotor, varsServicio>>

\* validation.py: _determinar_resultado
DeterminarResultado(gol_local, gol_visita) ==
    IF gol_local > gol_visita THEN "L"
    ELSE IF gol_local = gol_visita THEN "E"
    ELSE "V"

\* a table in which 1X and X2 cover the win only
CoberturaSinEmpate(doble_oportunidad) ==
    IF doble_oportunidad = "1X" THEN {"L"}
    ELSE IF doble_oportunidad = "X2" THEN {"V"}
    ELSE IF doble_oportunidad = "12" THEN {"L", "V"}
    ELSE {}

\* validation.py: the table `cobertura` of _validar_doble_oportunidad
Cobertura(doble_oportunidad) ==
    IF doble_oportunidad = "1X" THEN {"L", "E"}
    ELSE IF doble_oportunidad = "X2" THEN {"E", "V"}
    ELSE IF doble_oportunidad = "12" THEN {"L", "V"}
    ELSE {}

\* validation.py: _validar_doble_oportunidad
ValidarDobleOportunidad(doble_oportunidad, resultado_real) ==
    IF resultado_real \in Cobertura(doble_oportunidad) THEN "GANA" ELSE "PIERDE"

\* validation.py: _validar_tiempo, without the both-teams-score market
ValidarTiempo(pronostico, doble_oportunidad, resultado_real) ==
    [resultado_doble_oportunidad |->
         ValidarDobleOportunidad(doble_oportunidad, resultado_real),
     pronostico_original |-> pronostico,
     resultado_real |-> resultado_real,
     acierto_principal |-> (pronostico = resultado_real)]

\* <<gol_local_tc, gol_visita_tc, gol_local_1mt, gol_visita_1mt>>
GolesReales == {<<1, 0, 0, 0>>, <<1, 1, 1, 0>>, <<0, 1, 0, 1>>}

\* the goals of each time scope, the second half derived
GolesPorTiempo(goles) ==
    [completo |-> <<goles[1], goles[2]>>,
     primer_tiempo |-> <<goles[3], goles[4]>>,
     segundo_tiempo |-> <<goles[1] - goles[3], goles[2] - goles[4]>>]

\* validar_pronostico(pronostico_id, goles...)
ValidarPronosticoHasta(limite, pronostico_id, goles) ==
    /\ Len(validations) < limite
    /\ LET encontrado == FindOne(predictions, pronostico_id)
       IN  IF encontrado = <<>>
           THEN /\ validacion' = [pronostico_id |-> pronostico_id,
                                  estado |-> "no_encontrado",
                                  goles |-> goles, tiempos |-> <<>>]
                /\ UNCHANGED validations
           ELSE LET por_tiempo == GolesPorTiempo(goles)
                    tiempos ==
                        [t \in TiposTiempo |->
                            ValidarTiempo(
                                encontrado[1].tiempos[t].pronostico,
                                encontrado[1].tiempos[t].doble_oportunidad,
                                DeterminarResultado(por_tiempo[t][1],
                                                    por_tiempo[t][2]))]
                    v == [pronostico_id |-> pronostico_id, estado |-> "ok",
                          goles |-> goles, tiempos |-> <<tiempos>>]
                IN  /\ validations' = Append(validations, v)
                    /\ validacion' = v
    /\ UNCHANGED <<predictions, peticion, devueltos, uuids>>
    /\ UNCHANGED <<varsStats, varsMotor, varsServicio>>

\* validar_pronostico while the validations collection holds fewer than
\* MaxValidaciones documents
ValidarPronostico(pronostico_id, goles) ==
    ValidarPronosticoHasta(MaxValidaciones, pronostico_id, goles)

InitPron ==
    /\ InitSinConstrucciones
    /\ motor = MotorInactivo
    /\ predictions = {}
    /\ validations = <<>>
    /\ peticion = [t \in {1, 2} |-> PeticionInactiva]
    /\ devueltos = {}
    /\ validacion = SinValidacion
    /\ uuids = 0
    /\ servicio = ServicioInactivo

NextPron ==
    \/ \E t \in Peticiones, p \in PartidosPedidos, l \in LecturasPosibles :
          GenerarPronostico(t, p, l)
    \/ \E t \in Peticiones : GuardarPronostico(t)
    \/ \E t \in Peticiones : FallarGuardado(t)
    \/ \E t \in Peticiones : DevolverPronostico(t)
    \/ \E t \in Peticiones : NuevaPeticion(t)
    \/ \E id \in 1..MaxPronosticos, g \in GolesReales : ValidarPronostico(id, g)

SpecPron == InitPron /\ [][NextPron]_vars

-----------------------------------------------------------------------------
(* prediction_engine.py: generar_pronostico with its two reads through the  *)
(* StatsBuilder of the engine (obtener_stats_equipo and its cache).         *)

\* obtener_stats_equipo(nombre, liga_id, season_id=s) as a function of the
\* cache and the collection: the cache after the call and what is returned
\* (<<>> is None)
LeerStatsEquipo(cache, coleccion, nombre, liga_id, s) ==
    LET i == Indice(cache, liga_id, nombre)
        hay == Coinciden(coleccion,
                         [nombre |-> nombre, liga_id |-> liga_id, season_id |-> s])
    IN  IF i # 0 THEN [cache |-> cache, resultado |-> <<cache[i].equipo>>]
        ELSE IF hay # {}
        THEN LET d == CHOOSE x \in hay : TRUE
             IN  [cache |-> Append(cache, [clave |-> <<liga_id, nombre>>,
                                           equipo |-> d]),
                  resultado |-> <<d>>]
        ELSE [cache |-> cache, resultado |-> <<>>]

\* the team_statistics document of a team and a season
DocumentoEquipo(nombre, s, registro) ==
    [Equipo(nombre, LIGA, s) EXCEPT
        !.stats = [t \in TiposTiempo |-> StatsDe(registro, registro)]]

\* the documents that the team_statistics collection may hold
DocumentosEquipo ==
    {DocumentoEquipo("A", "S1", <<5, 8>>), DocumentoEquipo("B", "S1", <<5, 3>>),
     DocumentoEquipo("A", "S2", <<6, 9>>), DocumentoEquipo("B", "S2", <<5, 15>>)}

\* what obtener_forma_reciente returned for the two teams
FormaLeida == <<[rendimiento |-> 5333]>>

\* generar_pronostico(local, visitante, LIGA, season_id=s), lines 163-244:
\* the two reads, the missing-statistics errors, the three forecasts and the
\* Pronostico object; what is left is the await of _guardar_pronostico
PedirPronostico(t, partido, s) ==
    /\ peticion[t].pc = "idle"
    /\ uuids < MaxPronosticos
    /\ LET l == LeerStatsEquipo(equipos_cache, team_statistics, partido[1], LIGA, s)
           v == LeerStatsEquipo(l.cache, team_statistics, partido[2], LIGA, s)
       IN  /\ equipos_cache' = v.cache
           /\ IF l.resultado = <<>> \/ v.resultado = <<>>
              THEN /\ peticion' = [peticion EXCEPT ![t].pc = "error",
                                                   ![t].error = "ValueError"]
                   /\ UNCHANGED uuids
              ELSE LET tiempos ==
                         [tt \in TiposTiempo |->
                             GenerarPronosticoTiempo(l.resultado[1].stats[tt],
                                                     v.resultado[1].stats[tt],
                                                     FormaLeida, FormaLeida, <<>>)]
                   IN  /\ uuids' = uuids + 1
                       /\ peticion' = [peticion EXCEPT
                              ![t].pc = "guardar",
                              ![t].pronostico =
                                  <<Pronostico(uuids + 1, partido[1], partido[2],
                                               LIGA, s, tiempos)>>]
    /\ UNCHANGED <<football_matches, team_statistics, tarea, consulta>>
    /\ UNCHANGED <<predictions, validations, devueltos, validacion>>
    /\ UNCHANGED <<varsMotor, varsServicio>>

InitLectura ==
    /\ football_matches = <<>>
    /\ team_statistics \in SUBSET DocumentosEquipo
    /\ equipos_cache = <<>>
    /\ tarea = <<>>
    /\ consulta = [nombre |-> "", season_id |-> "", resultado |-> <<>>]
    /\ motor = MotorInactivo
    /\ predictions = {}
    /\ validations = <<>>
    /\ peticion = [t \in {1} |-> PeticionInactiva]
    /\ devueltos = {}
    /\ validacion = SinValidacion
    /\ uuids = 0
    /\ servicio = ServicioInactivo

NextLectura ==
    \/ \E t \in Peticiones, p \in PartidosPedidos, s \in Temporadas :
          PedirPronostico(t, p, s)
    \/ \E t \in Peticiones : GuardarPronostico(t)
    \/ \E t \in Peticiones : FallarGuardado(t)
    \/ \E t \in Peticiones : DevolverPronostico(t)
    \/ \E t \in Peticiones : NuevaPeticion(t)

SpecLectura == InitLectura /\ [][NextLectura]_vars

-----------------------------------------------------------------------------
(* validation.py: validar_pronostico over a store of forecasts of two       *)
(* leagues, and calcular_efectividad over the validations.                  *)

\* the most documents of the validations collection in SpecVal
MaxValidacionesAlmacen == 2

\* the leagues of the stored forecasts
LigasAlmacen == {"L1", "L2"}

\* a successful read of generar_pronostico: its forecasts were built
LecturaAlmacen ==
    CHOOSE l \in DOMAIN PronosticosDeLectura :
        /\ l.factores_historicos = <<>>
        /\ \A t \in TiposTiempo : PronosticosDeLectura[l][t].ok

\* the predictions collection: forecast 1 of league L1, forecast 2 of L2
AlmacenPronosticos ==
    {Pronostico(1, "A", "B", "L1", "S1", PronosticosDeLectura[LecturaAlmacen]),
     Pronostico(2, "A", "B", "L2", "S1", PronosticosDeLectura[LecturaAlmacen])}

\* the ids passed to validar_pronostico: the stored ones and an unknown one
IdsValidados == {1, 2, 3}

\* round(aciertos / total * 100, 2), in hundredths of a percent
Accuracy(aciertos, total) == IF total > 0 THEN RoundDiv(aciertos * 10000, total) ELSE 0

\* calcular_efectividad(liga_id) without a date range, and without the
\* both-teams-score market: the query is {} whatever liga_id is
Efectividad(validaciones, liga_id) ==
    LET total == Len(validaciones)
        Contar(seq, Test(_)) == Cardinality({i \in DOMAIN seq : Test(seq[i])})
        DobleGana(t) ==
            LET Test(v) == v.tiempos[1][t].resultado_doble_oportunidad = "GANA"
            IN  Contar(validaciones, Test)
        principal ==
            LET Test(v) == v.tiempos[1]["completo"].acierto_principal
            IN  Contar(validaciones, Test)
    IN  IF total = 0
        THEN [total_validaciones |-> 0]
        ELSE [total_validaciones |-> total,
              tc_doble |-> DobleGana("completo"),
              tc_doble_accuracy |-> Accuracy(DobleGana("completo"), total),
              tc_principal |-> principal,
              tc_principal_accuracy |-> Accuracy(principal, total),
              mt1_doble |-> DobleGana("primer_tiempo"),
              mt1_doble_accuracy |-> Accuracy(DobleGana("primer_tiempo"), total),
              mt2_doble |-> DobleGana("segundo_tiempo"),
              mt2_doble_accuracy |-> Accuracy(DobleGana("segundo_tiempo"), total)]

\* validar_pronostico over the stored forecasts
ValidarAlmacenado(pronostico_id, goles) ==
    ValidarPronosticoHasta(MaxValidacionesAlmacen, pronostico_id, goles)

\* a call of calcular_efectividad; liga_id is <<>> (None) or <<liga>>
CalcularEfectividad(liga_id) ==
    /\ servicio' = [llamada |-> "calcular_efectividad",
                    entrada |-> [liga_id |-> liga_id],
                    salida |-> <<Efectividad(validations, liga_id)>>]
    /\ UNCHANGED <<varsStats, varsMotor, varsPron>>

InitVal ==
    /\ InitSinConstrucciones
    /\ motor = MotorInactivo
    /\ predictions = AlmacenPronosticos
    /\ validations = <<>>
    /\ peticion = <<>>
    /\ devueltos = {}
    /\ validacion = SinValidacion
    /\ uuids = 2
    /\ servicio = ServicioInactivo

NextVal ==
    \/ \E id \in IdsValidados, g \in GolesReales : ValidarAlmacenado(id, g)
    \/ \E l \in {<<>>} \cup {<<x>> : x \in LigasAlmacen} : CalcularEfectividad(l)

SpecVal == InitVal /\ [][NextVal]_vars

-----------------------------------------------------------------------------
(* backtesting.py: ejecutar_backtesting, one loop iteration per step.       *)

\* the most matches the football_matches collection holds in SpecBacktest
MaxPartidosBacktest == 7

\* a match document with its estado_del_partido
ConEstado(partido, estado) == partido @@ [estado_del_partido |-> estado]

\* the matches of the backtest, all with the keys that _evaluar_partido
\* reads: a finished match of two teams with statistics, a finished match
\* of a team without statistics, and a match that is not finished
PartidosBacktest ==
    {ConEstado(Partido("S1", <<"A", "B">>, <<1, 0, 0, 0>>), "Match Finished"),
     ConEstado(Partido("S1", <<"C", "A">>, <<1, 1, 1, 0>>), "Match Finished"),
     ConEstado(Partido("S1", <<"B", "A">>, <<1, 1, 0, 0>>), "Not Started")}

\* the team_statistics collection of the backtest
EstadisticasBacktest ==
    {DocumentoEquipo("A", "S1", <<5, 8>>), DocumentoEquipo("B", "S1", <<5, 3>>)}

\* the three period forecasts of a fixture, by the documents of the two teams
TiemposDe ==
    [l \in EstadisticasBacktest, v \in EstadisticasBacktest |->
        [tt \in TiposTiempo |->
            GenerarPronosticoTiempo(l.stats[tt], v.stats[tt],
                                    FormaLeida, FormaLeida, <<>>)]]

\* the counters that ejecutar_backtesting starts with (lines 47-58), without
\* the both-teams-score and over/under markets and the simulated ROI
ResultadosIniciales(n) ==
    [total_partidos |-> n,
     pronostico_principal |-> [aciertos |-> 0, total |-> 0],
     doble_oportunidad |-> [aciertos |-> 0, total |-> 0],
     errores |-> 0,
     detalle_errores |-> <<>>]

\* _evaluar_doble_oportunidad
EvaluarDobleOportunidad(prediccion, resultado) ==
    IF prediccion = "1X" THEN resultado \in {"L", "E"}
    ELSE IF prediccion = "X2" THEN resultado \in {"E", "V"}
    ELSE IF prediccion = "12" THEN resultado \in {"L", "V"}
    ELSE FALSE

\* _acumular_resultado
AcumularResultado(resultados, resultado) ==
    [resultados EXCEPT
        !.pronostico_principal.total = @ + 1,
        !.doble_oportunidad.total = @ + 1,
        !.pronostico_principal.aciertos =
            IF resultado.acierto_principal THEN @ + 1 ELSE @,
        !.doble_oportunidad.aciertos =
            IF resultado.acierto_doble THEN @ + 1 ELSE @]

\* an except branch that keeps every message
AnotarTodos(resultados, mensaje) ==
    [resultados EXCEPT !.errores = @ + 1,
                       !.detalle_errores = Append(@, mensaje)]

\* the except branch of the loop, lines 65-68
AnotarError(resultados, mensaje) ==
    [resultados EXCEPT
        !.errores = @ + 1,
        !.detalle_errores = IF Len(@) < 5 THEN Append(@, mensaje) ELSE @]

\* _calcular_porcentajes
CalcularPorcentajes(resultados) ==
    LET Porcentaje(c) == IF c.total > 0 THEN RoundDiv(c.aciertos * 10000, c.total)
                         ELSE 0
    IN  [total_partidos |-> resultados.total_partidos,
         pronostico_principal |->
             [aciertos |-> resultados.pronostico_principal.aciertos,
              total |-> resultados.pronostico_principal.total,
              porcentaje |-> Porcentaje(resultados.pronostico_principal)],
         doble_oportunidad |->
             [aciertos |-> resultados.doble_oportunidad.aciertos,
              total |-> resultados.doble_oportunidad.total,
              porcentaje |-> Porcentaje(resultados.doble_oportunidad)],
         errores |-> resultados.errores,
         detalle_errores |-> resultados.detalle_errores]

\* the finished matches, in the order of fecha
PartidosTerminados ==
    SelectSeq(football_matches,
              LAMBDA p : p.estado_del_partido = "Match Finished")

\* ejecutar_backtesting() up to the loop: the query, the early return without
\* matches, the counters and a PredictionEngine of its own (an empty cache)
EjecutarBacktesting ==
    /\ servicio.llamada = ""
    /\ IF PartidosTerminados = <<>>
       THEN servicio' = [llamada |-> "ejecutar_backtesting", entrada |-> <<>>,
                         salida |-> <<[error |-> "No hay partidos para analizar"]>>,
                         pendientes |-> <<>>, cache |-> <<>>, resultados |-> <<>>]
       ELSE servicio' = [llamada |-> "ejecutar_backtesting", entrada |-> <<>>,
                         salida |-> <<>>,
                         pendientes |-> PartidosTerminados, cache |-> <<>>,
                         resultados |->
                             <<ResultadosIniciales(Len(PartidosTerminados))>>]
    /\ UNCHANGED <<varsStats, varsMotor, varsPron>>

\* one iteration of the loop: _evaluar_partido on the next match, with the
\* generar_pronostico call of the engine, and _acumular_resultado or the
\* except branch.  falla tells whether the insert_one of the forecast raises.
EvaluarPartido(falla) ==
    /\ servicio.llamada = "ejecutar_backtesting"
    /\ servicio.salida = <<>>
    /\ servicio.pendientes # <<>>
    /\ LET partido == Head(servicio.pendientes)
           resto == Tail(servicio.pendientes)
           res == servicio.resultados[1]
           l == LeerStatsEquipo(servicio.cache, team_statistics,
                                partido.equipo_local, partido.liga_id,
                                partido.season_id)
           v == LeerStatsEquipo(l.cache, team_statistics,
                                partido.equipo_visitante, partido.liga_id,
                                partido.season_id)
           real == DeterminarResultado(partido.goles_local_TR,
                                       partido.goles_visitante_TR)
       IN  IF l.resultado = <<>> \/ v.resultado = <<>>
           THEN /\ servicio' = [servicio EXCEPT
                       !.pendientes = resto, !.cache = v.cache,
                       !.resultados = <<AnotarError(res, "ValueError")>>]
                /\ UNCHANGED <<predictions, uuids>>
           ELSE LET tiempos == TiemposDe[l.resultado[1], v.resultado[1]]
                    doc == Pronostico(uuids + 1, partido.equipo_local,
                                      partido.equipo_visitante, partido.liga_id,
                                      partido.season_id, tiempos)
                    tc == doc.tiempos["completo"]
                    resultado ==
                        [acierto_principal |-> tc.pronostico = real,
                         acierto_doble |->
                             EvaluarDobleOportunidad(tc.doble_oportunidad, real)]
                IN  IF \E tt \in TiposTiempo : ~tiempos[tt].ok
                    THEN /\ servicio' = [servicio EXCEPT
                                !.pendientes = resto, !.cache = v.cache,
                                !.resultados =
                                    <<AnotarError(res, "ValidationError")>>]
                         /\ UNCHANGED <<predictions, uuids>>
                    ELSE IF falla
                    THEN /\ servicio' = [servicio EXCEPT
                                !.pendientes = resto, !.cache = v.cache,
                                !.resultados =
                                    <<AnotarError(res, "PyMongoError")>>]
                         /\ uuids' = uuids + 1
                         /\ UNCHANGED predictions
                    ELSE /\ servicio' = [servicio EXCEPT
                                !.pendientes = resto, !.cache = v.cache,
                                !.resultados =
                                    <<AcumularResultado(res, resultado)>>]
                         /\ uuids' = uuids + 1
                         /\ predictions' = InsertOne(predictions, doc)
    /\ UNCHANGED <<validations, peticion, devueltos, validacion>>
    /\ UNCHANGED <<varsStats, varsMotor>>

\* after the loop: _calcular_porcentajes and the return
TerminarBacktesting ==
    /\ servicio.llamada = "ejecutar_backtesting"
    /\ servicio.salida = <<>>
    /\ servicio.pendientes = <<>>
    /\ servicio' = [servicio EXCEPT
           !.salida = <<CalcularPorcentajes(servicio.resultados[1])>>]
    /\ UNCHANGED <<varsStats, varsMotor, varsPron>>

InitBacktest ==
    /\ football_matches \in SeqsHasta(PartidosBacktest, MaxPartidosBacktest)
    /\ team_statistics = EstadisticasBacktest
    /\ equipos_cache = <<>>
    /\ tarea = <<>>
    /\ consulta = [nombre |-> "", season_id |-> "", resultado |-> <<>>]
    /\ motor = MotorInactivo
    /\ InitSinPronosticos
    /\ servicio = ServicioInactivo

NextBacktest ==
    \/ EjecutarBacktesting
    \/ \E falla \in BOOLEAN : EvaluarPartido(falla)
    \/ TerminarBacktesting

SpecBacktest == InitBacktest /\ [][NextBacktest]_vars

-----------------------------------------------------------------------------
(* classification.py: generar_clasificacion.  A team name is the sequence   *)
(* of the code points of its characters, which is what Python compares.     *)

\* the most teams that obtener_todos_equipos returns
MaxEquipos == 3

\* a < b for two str: the first differing code point decides, and a proper
\* prefix is the smaller
RECURSIVE MenorCadena(_, _)
MenorCadena(a, b) ==
    IF b = <<>> THEN FALSE
    ELSE IF a = <<>> THEN TRUE
    ELSE IF Head(a) # Head(b) THEN Head(a) < Head(b)
    ELSE MenorCadena(Tail(a), Tail(b))

\* the columns of FilaClasificacion that the order reads, and posicion
FilaClasificacion(equipo, pts, dif, gf) ==
    [posicion |-> 0, equipo |-> equipo, pts |-> pts, dif |-> dif, gf |-> gf]

\* "A", "AB" and "B"
NombresClasificacion == {<<65>>, <<65, 66>>, <<66>>}

\* the rows built from the teams that obtener_todos_equipos returned
FilasPosibles ==
    {FilaClasificacion(n, 3, 0, 1) : n \in NombresClasificacion}
    \cup {FilaClasificacion(<<65>>, 3, 0, 2), FilaClasificacion(<<66>>, 3, 1, 1),
          FilaClasificacion(<<65, 66>>, 3, 1, 1),
          FilaClasificacion(<<66>>, 6, -1, 0), FilaClasificacion(<<65>>, 6, -1, 0)}

\* a key that leaves the name out
ClaveSinNombre(x, y) ==
    \/ -x.pts < -y.pts
    \/ -x.pts = -y.pts /\ -x.dif < -y.dif
    \/ -x.pts = -y.pts /\ -x.dif = -y.dif /\ -x.gf < -y.gf

\* key(x) < key(y) for key = lambda x: (-x.pts, -x.dif, -x.gf, x.equipo)
ClaveMenor(x, y) ==
    \/ -x.pts < -y.pts
    \/ -x.pts = -y.pts /\ -x.dif < -y.dif
    \/ -x.pts = -y.pts /\ -x.dif = -y.dif /\ -x.gf < -y.gf
    \/ /\ -x.pts = -y.pts /\ -x.dif = -y.dif /\ -x.gf = -y.gf
       /\ MenorCadena(x.equipo, y.equipo)

\* x put into the sorted list after every element whose key is not greater
RECURSIVE Insertar(_, _)
Insertar(ordenadas, x) ==
    IF ordenadas = <<>> THEN <<x>>
    ELSE IF ClaveMenor(x, Head(ordenadas)) THEN <<x>> \o ordenadas
    ELSE <<Head(ordenadas)>> \o Insertar(Tail(ordenadas), x)

\* filas.sort(key=...): a stable sort
RECURSIVE Ordenar(_)
Ordenar(filas) ==
    IF filas = <<>> THEN <<>>
    ELSE Insertar(Ordenar(SubSeq(filas, 1, Len(filas) - 1)), filas[Len(filas)])

\* for idx, fila in enumerate(filas, 1): fila.posicion = idx
AsignarPosiciones(filas) ==
    [idx \in 1..Len(filas) |-> [filas[idx] EXCEPT !.posicion = idx]]

\* generar_clasificacion over the teams of the league
GenerarClasificacion ==
    /\ servicio.llamada = "generar_clasificacion"
    /\ servicio.salida = <<>>
    /\ servicio' = [servicio EXCEPT !.salida =
           IF servicio.entrada = <<>>
           THEN <<[error |-> "ValueError", filas |-> <<>>]>>
           ELSE <<[error |-> "",
                   filas |-> AsignarPosiciones(Ordenar(servicio.entrada))]>>]
    /\ UNCHANGED <<varsStats, varsMotor, varsPron>>

InitClasificacion ==
    /\ InitSinConstrucciones
    /\ motor = MotorInactivo
    /\ InitSinPronosticos
    /\ \E filas \in SeqsHasta(FilasPosibles, MaxEquipos) :
          servicio = [llamada |-> "generar_clasificacion", entrada |-> filas,
                      salida |-> <<>>]

NextClasificacion == GenerarClasificacion

SpecClasificacion == InitClasificacion /\ [][NextClasificacion]_vars

-----------------------------------------------------------------------------
(* stats_builder.py: obtener_forma_reciente.  The position of a match in    *)
(* football_matches is the order of its field fecha, oldest first.          *)

\* the most matches the football_matches collection holds in SpecForma
MaxPartidosForma == 3

\* matches of team A as data_transformer stores them (a match that has not
\* been played has 0 goals): a home win and an away defeat of season S1, a
\* draw of season S2, and a match of season S1 that is not finished
PartidosForma ==
    {ConEstado(Partido("S1", <<"A", "B">>, <<1, 0, 0, 0>>), "Match Finished"),
     ConEstado(Partido("S1", <<"B", "A">>, <<1, 0, 0, 0>>), "Match Finished"),
     ConEstado(Partido("S2", <<"A", "B">>, <<1, 1, 1, 0>>), "Match Finished"),
     ConEstado(Partido("S1", <<"A", "B">>, <<0, 0, 0, 0>>), "Not Started")}

\* n_partidos
NPartidos == {1, 2, 5}

\* the positions of the documents that match the query of
\* obtener_forma_reciente: the league, the team at home or away, the season
CoincidenForma(nombre_equipo, liga_id, season_id) ==
    {i \in DOMAIN football_matches :
        /\ football_matches[i].liga_id = liga_id
        /\ \/ football_matches[i].equipo_local = nombre_equipo
           \/ football_matches[i].equipo_visitante = nombre_equipo
        /\ football_matches[i].season_id = season_id}

\* the orders in which a sort may return the positions of S when the sort
\* field (fecha_partido) is in none of the documents and every key is equal
Ordenes(S) ==
    {f \in [1..Cardinality(S) -> S] :
        \A j \in DOMAIN f : \A k \in DOMAIN f : j # k => f[j] # f[k]}

\* the letter and the points of a match for the team
ResultadoForma(partido, nombre_equipo) ==
    LET es_local == partido.equipo_local = nombre_equipo
        gf == IF es_local THEN partido.goles_local_TR ELSE partido.goles_visitante_TR
        gc == IF es_local THEN partido.goles_visitante_TR ELSE partido.goles_local_TR
    IN  IF gf > gc THEN [letra |-> "V", puntos |-> 3]
        ELSE IF gf = gc THEN [letra |-> "E", puntos |-> 1]
        ELSE [letra |-> "D", puntos |-> 0]

RECURSIVE SumaPuntos(_)
SumaPuntos(rs) == IF rs = <<>> THEN 0 ELSE Head(rs).puntos + SumaPuntos(Tail(rs))

\* lines 674-725: the result over the documents that the find returned;
\* `partidos` keeps the positions of those documents
FormaDe(posiciones, nombre_equipo) ==
    LET rs == [k \in DOMAIN posiciones |->
                  ResultadoForma(football_matches[posiciones[k]], nombre_equipo)]
    IN  IF posiciones = <<>>
        THEN [ultimos_5 |-> <<>>, rendimiento |-> 0, racha |-> "Sin datos",
              partidos |-> <<>>]
        ELSE [ultimos_5 |-> [k \in DOMAIN rs |-> rs[k].letra],
              rendimiento |-> RoundDiv(SumaPuntos(rs) * 10000, Len(rs) * 3),
              racha |-> "",
              partidos |-> posiciones]

\* obtener_forma_reciente(nombre, LIGA, season_id, n_partidos=n)
ObtenerFormaReciente ==
    /\ servicio.llamada = "obtener_forma_reciente"
    /\ servicio.salida = <<>>
    /\ LET e == servicio.entrada
       IN  \E orden \in Ordenes(CoincidenForma(e.nombre_equipo, LIGA, e.season_id)) :
              servicio' = [servicio EXCEPT !.salida =
                  <<FormaDe(SubSeq(orden, 1, Min(Len(orden), e.n_partidos)),
                            e.nombre_equipo)>>]
    /\ UNCHANGED <<varsStats, varsMotor, varsPron>>

InitForma ==
    /\ football_matches \in SeqsHasta(PartidosForma, MaxPartidosForma)
    /\ team_statistics = {}
    /\ equipos_cache = <<>>
    /\ tarea = <<>>
    /\ consulta = [nombre |-> "", season_id |-> "", resultado |-> <<>>]
    /\ motor = MotorInactivo
    /\ InitSinPronosticos
    /\ \E s \in Temporadas, n \in NPartidos :
          servicio = [llamada |-> "obtener_forma_reciente",
                      entrada |-> [nombre_equipo |-> "A", season_id |-> s,
                                   n_partidos |-> n],
                      salida |-> <<>>]

NextForma == ObtenerFormaReciente

SpecForma == InitForma /\ [][NextForma]_vars

-----------------------------------------------------------------------------
(* The full-match forecast of a fixture between a home team that won its   *)
(* ten home matches and an away team that lost its ten away matches.       *)

\* <<played, points>>: 10 wins, 0 draws, 0 losses at home
RegistroLocalEscenario == <<10, 10 * PUNTOS_VICTORIA>>

\* <<played, points>>: 0 wins, 0 draws, 10 losses away
RegistroVisitaEscenario == <<10, 10 * PUNTOS_DERROTA>>

\* every rendimiento that obtener_forma_reciente can return over the last
\* n <= 5 matches, 0.0 without matches; <<>> is None
FormasEscenario ==
    {<<>>} \cup UNION {{<<[rendimiento |-> RoundDiv(p * 10000, 3 * n)]>> :
                            p \in 0..(3 * n)} : n \in 1..5}

InitEscenario ==
    /\ InitSinConstrucciones
    /\ InitSinPronosticos
    /\ servicio = ServicioInactivo
    /\ \E fl \in FormasEscenario, fv \in FormasEscenario, fh \in FactoresPosibles :
          motor = [llamada |-> "_generar_pronostico_tiempo",
                   entrada |-> [reg_local |-> RegistroLocalEscenario,
                                reg_visita |-> RegistroVisitaEscenario,
                                forma_local |-> fl, forma_visitante |-> fv,
                                factores_historicos |-> fh],
                   salida |-> <<>>]

NextEscenario == LlamarGenerarPronosticoTiempo

SpecEscenario == InitEscenario /\ [][NextEscenario]_vars

-----------------------------------------------------------------------------
(* The match store of DatabaseManager.  football_matches is the collection, *)
(* with the unique index of Mongo on _id and the unique indexes that        *)
(* _create_indexes declares on match_id (sparse) and on id_partido.         *)

\* the most documents a list given to insert_many_matches holds
MaxDocumentos == 2

\* a match document as a dict: 0 is an absent _id or id_partido, "" an absent
\* match_id, FALSE an absent updated_at
DocumentoPartido(id, match_id, id_partido) ==
    [_id |-> id, match_id |-> match_id, id_partido |-> id_partido,
     updated_at |-> FALSE]

\* the documents a caller passes
DocumentosPartido ==
    {DocumentoPartido(i, m, p) : i \in {0, 1}, m \in {"", "AAA", "BBB"},
                                 p \in {0, 7}}

\* the contents of the collection before the call
AlmacenesPartidos ==
    {<<>>,
     <<DocumentoPartido(1, "AAA", 7)>>,
     <<DocumentoPartido(1, "AAA", 7), DocumentoPartido(2, "BBB", 8)>>}

\* the _id that insert_one gives to the k-th document of a list when the
\* document has none: an ObjectId that no other document has
IdNuevo(k) == 100 + k

\* a document with the key of doc in one of the unique indexes; a document
\* without id_partido is indexed under null, a document without match_id is
\* not in the sparse index
ClaveDuplicada(coleccion, doc) ==
    \E i \in DOMAIN coleccion :
        \/ coleccion[i]._id = doc._id
        \/ doc.match_id # "" /\ coleccion[i].match_id = doc.match_id
        \/ coleccion[i].id_partido = doc.id_partido

\* collection.insert_one(match_data): the driver adds the _id to the dict
\* before sending it; falla is a PyMongoError other than a duplicate key
InsertOnePartido(coleccion, match_data, id_nuevo, falla) ==
    LET doc == IF match_data._id = 0
               THEN [match_data EXCEPT !._id = id_nuevo]
               ELSE match_data
    IN  IF falla
        THEN [coleccion |-> coleccion, match_data |-> doc,
              excepcion |-> "PyMongoError"]
        ELSE IF ClaveDuplicada(coleccion, doc)
        THEN [coleccion |-> coleccion, match_data |-> doc,
              excepcion |-> "DuplicateKeyError"]
        ELSE [coleccion |-> Append(coleccion, doc), match_data |-> doc,
              excepcion |-> ""]

\* the document i after $set with campos: the fields that campos carries
\* replace those of the document
AplicarSet(documento, campos) ==
    [_id |-> IF campos._id # 0 THEN campos._id ELSE documento._id,
     match_id |-> IF campos.match_id # "" THEN campos.match_id
                  ELSE documento.match_id,
     id_partido |-> IF campos.id_partido # 0 THEN campos.id_partido
                    ELSE documento.id_partido,
     updated_at |-> campos.updated_at \/ documento.updated_at]

\* the collection without its i-th document
SinDocumento(coleccion, i) ==
    SubSeq(coleccion, 1, i - 1) \o SubSeq(coleccion, i + 1, Len(coleccion))

\* collection.update_one(query, {'$set': campos}): matched_count is -1 when
\* the call raises a PyMongoError: falla, a $set that changes the immutable
\* _id of the matched document, or a new key that another document has
UpdateOne(coleccion, query, campos, falla) ==
    LET hallados == {i \in DOMAIN coleccion :
                        coleccion[i][query.campo] = query.valor}
    IN  IF falla THEN [coleccion |-> coleccion, matched_count |-> -1]
        ELSE IF hallados = {} THEN [coleccion |-> coleccion, matched_count |-> 0]
        ELSE LET i == CHOOSE h \in hallados : \A g \in hallados : h <= g
                 nuevo == AplicarSet(coleccion[i], campos)
             IN  IF nuevo._id # coleccion[i]._id
                 THEN [coleccion |-> coleccion, matched_count |-> -1]
                 ELSE IF ClaveDuplicada(SinDocumento(coleccion, i), nuevo)
                 THEN [coleccion |-> coleccion, matched_count |-> -1]
                 ELSE [coleccion |-> [coleccion EXCEPT ![i] = nuevo],
                       matched_count |-> 1]

\* _update_existing_match: enviado is the update that was sent to the
\* collection, <<>> when none was
UpdateExistingMatch(coleccion, match_data, falla) ==
    IF match_data.match_id = "" /\ match_data.id_partido = 0
    THEN [coleccion |-> coleccion, enviado |-> <<>>, retorno |-> FALSE]
    ELSE LET query == IF match_data.match_id # ""
                      THEN [campo |-> "match_id", valor |-> match_data.match_id]
                      ELSE [campo |-> "id_partido",
                            valor |-> match_data.id_partido]
             datos == [match_data EXCEPT !.updated_at = TRUE]
             result == UpdateOne(coleccion, query, datos, falla)
         IN  [coleccion |-> result.coleccion,
              enviado |-> <<[filtro |-> query, set |-> datos,
                             matched_count |-> result.matched_count]>>,
              retorno |-> result.matched_count > 0]

\* the counters of insert_many_matches before the loop
StatsInsercion == [insertados |-> 0, actualizados |-> 0, duplicados |-> 0, errores |-> 0]

\* a loop body that does not count the documents whose update failed
ContarSinDuplicados(stats, excepcion, actualizado) ==
    IF excepcion = ""
    THEN [stats EXCEPT !.insertados = @ + 1]
    ELSE IF excepcion = "DuplicateKeyError"
    THEN IF actualizado THEN [stats EXCEPT !.actualizados = @ + 1] ELSE stats
    ELSE [stats EXCEPT !.errores = @ + 1]

\* the counter that the loop body of insert_many_matches increments
ContarDocumento(stats, excepcion, actualizado) ==
    IF excepcion = ""
    THEN [stats EXCEPT !.insertados = @ + 1]
    ELSE IF excepcion = "DuplicateKeyError"
    THEN IF actualizado
         THEN [stats EXCEPT !.actualizados = @ + 1]
         ELSE [stats EXCEPT !.duplicados = @ + 1]
    ELSE [stats EXCEPT !.errores = @ + 1]

\* one iteration of the loop of insert_many_matches
InsertarSiguiente(falla_insert, falla_update) ==
    /\ servicio.llamada = "insert_many_matches"
    /\ servicio.salida = <<>>
    /\ servicio.pendientes # <<>>
    /\ LET k == Len(servicio.entrada) - Len(servicio.pendientes) + 1
           ins == InsertOnePartido(football_matches, Head(servicio.pendientes),
                                   IdNuevo(k), falla_insert)
           duplicado == ins.excepcion = "DuplicateKeyError"
           act == IF duplicado
                  THEN UpdateExistingMatch(ins.coleccion, ins.match_data, falla_update)
                  ELSE [coleccion |-> ins.coleccion, enviado |-> <<>>,
                        retorno |-> FALSE]
       IN  /\ (~duplicado => ~falla_update)
           /\ football_matches' = act.coleccion
           /\ servicio' = [servicio EXCEPT
                  !.pendientes = Tail(@),
                  !.enviados = @ \o act.enviado,
                  !.ultimo = <<[excepcion |-> ins.excepcion,
                                actualizado |-> act.retorno]>>,
                  !.stats = ContarDocumento(@, ins.excepcion, act.retorno)]
    /\ UNCHANGED <<team_statistics, equipos_cache, tarea, consulta>>
    /\ UNCHANGED <<varsMotor, varsPron>>

\* insert_many_matches returns its counters after the loop
TerminarInsertMany ==
    /\ servicio.llamada = "insert_many_matches"
    /\ servicio.salida = <<>>
    /\ servicio.pendientes = <<>>
    /\ servicio' = [servicio EXCEPT !.salida = <<servicio.stats>>]
    /\ UNCHANGED <<varsStats, varsMotor, varsPron>>

\* a call of _update_existing_match
LlamarUpdateExistingMatch(falla) ==
    /\ servicio.llamada = "_update_existing_match"
    /\ servicio.salida = <<>>
    /\ LET act == UpdateExistingMatch(football_matches, servicio.entrada[1], falla)
       IN  /\ football_matches' = act.coleccion
           /\ servicio' = [servicio EXCEPT !.enviados = act.enviado,
                                           !.salida = <<act.retorno>>]
    /\ UNCHANGED <<team_statistics, equipos_cache, tarea, consulta>>
    /\ UNCHANGED <<varsMotor, varsPron>>

InitDB ==
    /\ football_matches \in AlmacenesPartidos
    /\ team_statistics = {}
    /\ equipos_cache = <<>>
    /\ tarea = <<>>
    /\ consulta = [nombre |-> "", season_id |-> "", resultado |-> <<>>]
    /\ motor = MotorInactivo
    /\ InitSinPronosticos
    /\ \E llamada \in {"insert_many_matches", "_update_existing_match"} :
       \E lista \in SeqsHasta(DocumentosPartido, MaxDocumentos) :
          /\ (llamada = "_update_existing_match" => Len(lista) = 1)
          /\ servicio = [llamada |-> llamada, entrada |-> lista,
                         salida |-> <<>>, pendientes |-> lista,
                         stats |-> StatsInsercion, enviados |-> <<>>,
                         ultimo |-> <<>>]

NextDB ==
    \/ \E falla_insert \in BOOLEAN, falla_update \in BOOLEAN :
          InsertarSiguiente(falla_insert, falla_update)
    \/ TerminarInsertMany
    \/ \E falla \in BOOLEAN : LlamarUpdateExistingMatch(falla)

SpecDB == InitDB /\ [][NextDB]_vars

-----------------------------------------------------------------------------
(* The season functions of DataTransformer and of stats_builder.  A str is  *)
(* the sequence of its characters.                                          *)

Digitos == <<"0", "1", "2", "3", "4", "5", "6", "7", "8", "9">>

EsDigito(c) == \E d \in 1..10 : Digitos[d] = c

ValorDigito(c) == (CHOOSE d \in 1..10 : Digitos[d] = c) - 1

\* str(n) of an int n >= 0
RECURSIVE Decimal(_)
Decimal(n) ==
    IF n < 10 THEN <<Digitos[n + 1]>>
    ELSE Append(Decimal(n \div 10), Digitos[(n % 10) + 1])

\* a format without the zero fill
SinRelleno(n) == Decimal(n)

\* f"{n:02d}" of an int n >= 0
DosDigitos(n) == IF n < 10 THEN <<"0">> \o Decimal(n) ELSE Decimal(n)

\* int(s) of a str of digits
RECURSIVE ValorDecimal(_)
ValorDecimal(s) ==
    IF s = <<>> THEN 0
    ELSE ValorDecimal(SubSeq(s, 1, Len(s) - 1)) * 10 + ValorDigito(s[Len(s)])

\* DataTransformer.generate_season_id
GenerateSeasonId(liga_id, season_year) ==
    LET next_year == (season_year + 1) % 100
    IN  liga_id \o <<"_">> \o Decimal(season_year) \o <<"-">> \o DosDigitos(next_year)

\* generate_season_id of stats_builder
GenerateSeasonIdStats(liga_id, temporada) ==
    LET next_year == (temporada + 1) % 100
    IN  liga_id \o <<"_">> \o Decimal(temporada) \o <<"-">> \o DosDigitos(next_year)

EsBisiesto(y) == (y % 4 = 0 /\ y % 100 # 0) \/ y % 400 = 0

DiasDelMes(y, m) ==
    IF m = 2 THEN (IF EsBisiesto(y) THEN 29 ELSE 28)
    ELSE IF m \in {4, 6, 9, 11} THEN 30 ELSE 31

\* datetime.strptime(fecha, "%Y-%m-%d"): <<>> when it raises ValueError.  %Y
\* takes four digits, %m and %d one or two, and datetime(year, month, day)
\* takes only a day of the calendar from the year 1 on
StrpTime(fecha) ==
    LET guiones == {i \in DOMAIN fecha : fecha[i] = "-"}
    IN  IF Cardinality(guiones) # 2 THEN <<>>
        ELSE LET g1 == CHOOSE i \in guiones : \A j \in guiones : i <= j
                 g2 == CHOOSE i \in guiones : \A j \in guiones : i >= j
                 a == SubSeq(fecha, 1, g1 - 1)
                 m == SubSeq(fecha, g1 + 1, g2 - 1)
                 d == SubSeq(fecha, g2 + 1, Len(fecha))
                 digitos == \A i \in DOMAIN fecha : i \in guiones \/ EsDigito(fecha[i])
             IN  IF /\ digitos
                    /\ Len(a) = 4 /\ Len(m) \in 1..2 /\ Len(d) \in 1..2
                    /\ ValorDecimal(a) >= 1
                    /\ ValorDecimal(m) \in 1..12
                    /\ ValorDecimal(d) \in 1..DiasDelMes(ValorDecimal(a), ValorDecimal(m))
                 THEN <<[year |-> ValorDecimal(a), month |-> ValorDecimal(m),
                         day |-> ValorDecimal(d)]>>
                 ELSE <<>>

\* season_hint or 2023; season_hint is <<>> for None
HintO2023(season_hint) ==
    IF season_hint = <<>> \/ season_hint = <<0>> THEN 2023 ELSE season_hint[1]

\* an inference that takes the hint and never reads the date
SeasonDelHint(fecha, season_hint) == HintO2023(season_hint)

\* DataTransformer.infer_season_from_date
InferSeasonFromDate(fecha, season_hint) ==
    IF fecha = <<>> THEN HintO2023(season_hint)
    ELSE LET fecha_dt == StrpTime(fecha)
         IN  IF fecha_dt = <<>> THEN HintO2023(season_hint)
             ELSE IF fecha_dt[1].month >= 8 THEN fecha_dt[1].year
             ELSE fecha_dt[1].year - 1

\* the text YYYY-MM-DD of a year, a month and a day
FormatoFecha(y, m, d) ==
    LET relleno == [k \in 1..(4 - Len(Decimal(y))) |-> "0"]
    IN  relleno \o Decimal(y) \o <<"-">> \o DosDigitos(m) \o <<"-">> \o DosDigitos(d)

AniosFecha == {1, 1900, 2000, 2023, 2024, 9999}
MesesFecha == 0..13
DiasFecha == {0, 1, 28, 29, 30, 31, 32}

\* the dates passed to infer_season_from_date: dates and non-dates in the
\* form YYYY-MM-DD, the same without zero fill, and texts that are no date
FechasPosibles ==
    {FormatoFecha(y, m, d) : y \in AniosFecha, m \in MesesFecha, d \in DiasFecha}
    \cup {Decimal(y) \o <<"-">> \o Decimal(m) \o <<"-">> \o Decimal(d) :
             y \in {2023, 2024}, m \in {2, 8}, d \in {1, 10}}
    \cup {<<>>, <<"2", "0", "2", "3">>, <<"2", "0", "2", "3", "-", "0", "8">>,
          <<"2", "0", "2", "3", "/", "0", "8", "/", "1", "0">>}

HintsPosibles == {<<>>, <<0>>, <<2020>>}

LigasTexto ==
    {<<"L", "1">>,
     <<"S", "P", "A", "I", "N", "_", "L", "A", "_", "L", "I", "G", "A">>}

AniosTemporada == {0, 8, 9, 98, 99, 1998, 1999, 2008, 2009, 2023, 2099}

\* a call of infer_season_from_date
LlamarInferSeason ==
    /\ servicio.llamada = "infer_season_from_date"
    /\ servicio.salida = <<>>
    /\ servicio' = [servicio EXCEPT !.salida =
                       <<InferSeasonFromDate(servicio.entrada.fecha,
                                             servicio.entrada.season_hint)>>]
    /\ UNCHANGED <<varsStats, varsMotor, varsPron>>

\* a call of each of the two generate_season_id with the same arguments
LlamarGenerateSeasonId ==
    /\ servicio.llamada = "generate_season_id"
    /\ servicio.salida = <<>>
    /\ servicio' = [servicio EXCEPT !.salida =
                       <<[transformer |-> GenerateSeasonId(servicio.entrada.liga_id,
                                                           servicio.entrada.year),
                          stats_builder |-> GenerateSeasonIdStats(servicio.entrada.liga_id,
                                                                  servicio.entrada.year)]>>]
    /\ UNCHANGED <<varsStats, varsMotor, varsPron>>

InitTransformador ==
    /\ football_matches = <<>>
    /\ team_statistics = {}
    /\ equipos_cache = <<>>
    /\ tarea = <<>>
    /\ consulta = [nombre |-> "", season_id |-> "", resultado |-> <<>>]
    /\ motor = MotorInactivo
    /\ InitSinPronosticos
    /\ \/ \E f \in FechasPosibles, h \in HintsPosibles :
             servicio = [llamada |-> "infer_season_from_date",
                         entrada |-> [fecha |-> f, season_hint |-> h],
                         salida |-> <<>>]
       \/ \E l \in LigasTexto, y \in AniosTemporada :
             servicio = [llamada |-> "generate_season_id",
                         entrada |-> [liga_id |-> l, year |-> y],
                         salida |-> <<>>]

NextTransformador == LlamarInferSeason \/ LlamarGenerateSeasonId

SpecTransformador == InitTransformador /\ [][NextTransformador]_vars

-----------------------------------------------------------------------------
(* The decision rules of the engine, called on their own and inside        *)
(* _generar_pronostico_tiempo.                                              *)

\* the step, in hundredths of a percent, between the percentages passed
PasoPorcentaje == 250

\* the triples that sum to 100
TriplesCien ==
    {Probabilidades(l * PasoPorcentaje, e * PasoPorcentaje,
                    10000 - (l + e) * PasoPorcentaje) :
        <<l, e>> \in {x \in (0..(10000 \div PasoPorcentaje)) \X (0..(10000 \div PasoPorcentaje)) :
                         (x[1] + x[2]) * PasoPorcentaje <= 10000}}

\* the triples whose sum is 99.95 or 100.05, what the rounding of three
\* percentages can leave
TriplesCasiCien ==
    {Probabilidades(l, e, 10000 + d - l - e) :
        l \in {0, 2000, 4505, 5800, 9995, 10000}, e \in {0, 5, 1995, 2000},
        d \in {-5, 5}}
    \cap [porcentaje_local : 0..10000, porcentaje_empate : 0..10000,
          porcentaje_visita : 0..10000]

\* triples that Probabilidades accepts and that do not sum to 100
TriplesLibres ==
    {Probabilidades(l, e, v) : l \in PorcentajesDirectos, e \in PorcentajesDirectos,
                               v \in PorcentajesDirectos}

TriplesDecision == TriplesCien \cup TriplesCasiCien \cup TriplesLibres

\* the factors passed, in thousandths: 1 to 5, and 3.15 = 3 * 1.05
FactoresDecision == {1000, 2000, 3000, 4000, 5000, 3150}

\* a call of _aplicar_algoritmo_decision
LlamarAplicarAlgoritmoDecision ==
    /\ motor.llamada = "_aplicar_algoritmo_decision"
    /\ motor.salida = <<>>
    /\ motor' = [motor EXCEPT !.salida =
                    <<[pronostico |->
                          AplicarAlgoritmoDecision(motor.entrada.probabilidades,
                                                   motor.entrada.factor_local,
                                                   motor.entrada.factor_visita)]>>]
    /\ UNCHANGED <<varsStats, varsPron, varsServicio>>

InitDecision ==
    /\ InitSinConstrucciones
    /\ InitSinPronosticos
    /\ servicio = ServicioInactivo
    /\ \/ \E p \in TriplesDecision, fl \in FactoresDecision, fv \in FactoresDecision :
            motor = [llamada |-> "_aplicar_algoritmo_decision",
                     entrada |-> [probabilidades |-> p, factor_local |-> fl,
                                  factor_visita |-> fv],
                     salida |-> <<>>]
       \/ \E p \in TriplesDecision, r \in {"L", "E", "V"} :
            motor = [llamada |-> "_generar_doble_oportunidad",
                     entrada |-> [pronostico |-> r, probabilidades |-> p],
                     salida |-> <<>>]
       \/ \E e \in EntradasPronosticoTiempo :
            motor = [llamada |-> "_generar_pronostico_tiempo",
                     entrada |-> e, salida |-> <<>>]

NextDecision ==
    \/ LlamarAplicarAlgoritmoDecision
    \/ LlamarGenerarDobleOportunidad
    \/ LlamarGenerarPronosticoTiempo

SpecDecision == InitDecision /\ [][NextDecision]_vars

-----------------------------------------------------------------------------
(* The period forecast of a fixture in which a team may have no recent      *)
(* matches.                                                                  *)

\* what obtener_forma_reciente returns for a team: without matches, after
\* three defeats, and after a win, a draw and a defeat
FormasConRacha ==
    {<<FormaDe(<<>>, "A")>>,
     <<[ultimos_5 |-> <<"D", "D", "D">>, rendimiento |-> 0,
        racha |-> "3 derrotas consecutivas", partidos |-> <<3, 2, 1>>]>>,
     <<[ultimos_5 |-> <<"V", "E", "D">>, rendimiento |-> 4444,
        racha |-> "1 victoria", partidos |-> <<3, 2, 1>>]>>}

InitSinDatos ==
    /\ InitSinConstrucciones
    /\ InitSinPronosticos
    /\ servicio = ServicioInactivo
    /\ \E rl \in Registros, rv \in Registros, fl \in FormasConRacha,
          fv \in FormasConRacha, fh \in {<<>>, <<FactoresHistoricos(<<>>, <<>>, CHOOSE h \in H2HPosibles : ~h.tiene_historial)>>} :
          motor = [llamada |-> "_generar_pronostico_tiempo",
                   entrada |-> [reg_local |-> rl, reg_visita |-> rv,
                                forma_local |-> fl, forma_visitante |-> fv,
                                factores_historicos |-> fh],
                   salida |-> <<>>]

NextSinDatos == LlamarGenerarPronosticoTiempo

SpecSinDatos == InitSinDatos /\ [][NextSinDatos]_vars

-----------------------------------------------------------------------------
(* The season weights of HistoricoConsolidado.  A weight is a number of     *)
(* hundred-thousandths; the products of the code are taken exactly.         *)

\* the most seasons with data that a blend takes
MaxTemporadasHist == 4

\* the weight 1.0
PesoUno == 100000

PESO_TEMPORADA_ACTUAL == 70000
PESO_HISTORICO == 30000

\* the loop of _calcular_pesos from the index i on
RECURSIVE PesosDesde(_, _, _, _)
PesosDesde(i, n, pesos, peso_restante) ==
    IF i > n - 1 THEN pesos
    ELSE IF i = n - 1 THEN Append(pesos, peso_restante)
    ELSE LET peso == (peso_restante * 6) \div 10
         IN  PesosDesde(i + 1, n, Append(pesos, peso), peso_restante - peso)

\* weights that give every older season 60% of the remainder, the last too
PesosSinResto(n) ==
    [i \in 1..n |-> IF i = 1 THEN PESO_TEMPORADA_ACTUAL
                    ELSE (PesosDesde(1, i + 1, <<PESO_TEMPORADA_ACTUAL>>, PESO_HISTORICO)[i])]

\* _calcular_pesos
CalcularPesos(n) ==
    IF n = 1 THEN <<PesoUno>>
    ELSE PesosDesde(1, n, <<PESO_TEMPORADA_ACTUAL>>, PESO_HISTORICO)

RECURSIVE SumaPonderada(_, _)
SumaPonderada(valores, pesos) ==
    IF valores = <<>> THEN 0
    ELSE Head(valores) * Head(pesos) + SumaPonderada(Tail(valores), Tail(pesos))

\* _calcular_stats_ponderadas over the rendimiento_general of each season,
\* most recent first, in hundredths of a percent
CalcularStatsPonderadas(stats_por_temporada) ==
    IF Len(stats_por_temporada) = 1
    THEN [rendimiento_general |-> stats_por_temporada[1], temporadas_usadas |-> 1,
          peso_actual |-> PesoUno, pesos |-> <<PesoUno>>]
    ELSE LET pesos == CalcularPesos(Len(stats_por_temporada))
         IN  [rendimiento_general |->
                 RoundDiv(SumaPonderada(stats_por_temporada, pesos), PesoUno),
              temporadas_usadas |-> Len(stats_por_temporada),
              peso_actual |-> pesos[1], pesos |-> pesos]

\* the rendimiento_general of a season
RendimientosTemporada == {0, 5000, 7500}

\* a call of _calcular_pesos
LlamarCalcularPesos ==
    /\ servicio.llamada = "_calcular_pesos"
    /\ servicio.salida = <<>>
    /\ servicio' = [servicio EXCEPT !.salida = <<CalcularPesos(servicio.entrada)>>]
    /\ UNCHANGED <<varsStats, varsMotor, varsPron>>

\* a call of _calcular_stats_ponderadas
LlamarCalcularStatsPonderadas ==
    /\ servicio.llamada = "_calcular_stats_ponderadas"
    /\ servicio.salida = <<>>
    /\ servicio' = [servicio EXCEPT !.salida =
                       <<CalcularStatsPonderadas(servicio.entrada)>>]
    /\ UNCHANGED <<varsStats, varsMotor, varsPron>>

InitPesos ==
    /\ football_matches = <<>>
    /\ team_statistics = {}
    /\ equipos_cache = <<>>
    /\ tarea = <<>>
    /\ consulta = [nombre |-> "", season_id |-> "", resultado |-> <<>>]
    /\ motor = MotorInactivo
    /\ InitSinPronosticos
    /\ \/ \E n \in 1..MaxTemporadasHist :
             servicio = [llamada |-> "_calcular_pesos", entrada |-> n,
                         salida |-> <<>>]
       \/ \E s \in SeqsHasta(RendimientosTemporada, MaxTemporadasHist) :
             /\ s # <<>>
             /\ servicio = [llamada |-> "_calcular_stats_ponderadas",
                            entrada |-> s, salida |-> <<>>]

NextPesos == LlamarCalcularPesos \/ LlamarCalcularStatsPonderadas

SpecPesos == InitPesos /\ [][NextPesos]_vars

-----------------------------------------------------------------------------
(* api_client.py: _make_request.  The servers' answers to the successive    *)
(* HTTP attempts of a call are drawn beforehand.                            *)

MAX_RETRIES == 3

\* what an attempt meets: a 200 with data, a 200 whose body carries errors,
\* a 200 whose body is no JSON object (response.json() or data.get raises),
\* the statuses 429, 500, 503, 404 and 204, a timeout, a connection error,
\* and another exception of requests.get
Respuestas ==
    {"200", "200_errors", "200_no_json", "429", "500", "503", "404", "204",
     "Timeout", "ConnectionError", "Exception"}

\* an iteration that retries only after a timeout or a connection error
ReaccionSinEstado(respuesta) ==
    IF respuesta = "200" THEN "return data"
    ELSE IF respuesta \in {"Timeout", "ConnectionError"} THEN "continue"
    ELSE "return None"

\* the body of the loop for one answer: what the iteration ends with
Reaccion(respuesta) ==
    IF respuesta = "200" THEN "return data"
    ELSE IF respuesta = "200_errors" THEN "return None"
    ELSE IF respuesta = "200_no_json" THEN "return None"
    ELSE IF respuesta = "429" THEN "continue"
    ELSE IF respuesta \in {"500", "503"} THEN "continue"
    ELSE IF respuesta \in {"Timeout", "ConnectionError"} THEN "continue"
    ELSE "return None"

\* one iteration of `for attempt in range(MAX_RETRIES)`: one requests.get
Intentar ==
    /\ servicio.llamada = "_make_request"
    /\ servicio.salida = <<>>
    /\ servicio.attempt < MAX_RETRIES
    /\ LET respuesta == servicio.entrada[servicio.attempt + 1]
           reaccion == Reaccion(respuesta)
       IN  servicio' = [servicio EXCEPT
                           !.peticiones = @ + 1,
                           !.attempt = @ + 1,
                           !.salida = IF reaccion = "return data" THEN <<"data">>
                                      ELSE IF reaccion = "return None" THEN <<"None">>
                                      ELSE <<>>]
    /\ UNCHANGED <<varsStats, varsMotor, varsPron>>

\* the loop ended without a return
AgotarIntentos ==
    /\ servicio.llamada = "_make_request"
    /\ servicio.salida = <<>>
    /\ servicio.attempt >= MAX_RETRIES
    /\ servicio' = [servicio EXCEPT !.salida = <<"None">>]
    /\ UNCHANGED <<varsStats, varsMotor, varsPron>>

InitCliente ==
    /\ football_matches = <<>>
    /\ team_statistics = {}
    /\ equipos_cache = <<>>
    /\ tarea = <<>>
    /\ consulta = [nombre |-> "", season_id |-> "", resultado |-> <<>>]
    /\ motor = MotorInactivo
    /\ InitSinPronosticos
    /\ \E respuestas \in [1..MAX_RETRIES -> Respuestas] :
          servicio = [llamada |-> "_make_request", entrada |-> respuestas,
                      salida |-> <<>>, attempt |-> 0, peticiones |-> 0]

NextCliente == Intentar \/ AgotarIntentos

\* the call runs on its own thread of control: an iteration that can run does
SpecCliente == InitCliente /\ [][NextCliente]_vars /\ WF_vars(NextCliente)

-----------------------------------------------------------------------------
(* Properties of the statistics builder *)

Consistente(st) ==
    /\ st["victorias"] + st["empates"] + st["derrotas"] = st["partidos_jugados"]
    /\ st["v_local"] + st["e_local"] + st["d_local"] = st["pj_local"]
    /\ st["v_visita"] + st["e_visita"] + st["d_visita"] = st["pj_visita"]

\* C1: for every team held by the builder, in each of the three time scopes
\* and each context (overall, home, away), wins + draws + losses = played,
\* after any number of folded matches, a fold that raised part-way included.
C1_VictoriasEmpatesDerrotas ==
    \A i \in 1..Len(equipos_cache) : \A t \in TiposTiempo :
        Consistente(equipos_cache[i].equipo.stats[t])

\* C2: one bad record never aborts the build: a build over a non-empty batch
\* ends normally, and every team it returns has been persisted with the
\* statistics returned.
C2_ConstruccionNoAborta ==
    \A t \in Tareas :
        tarea[t].pc = "fin" /\ PartidosDe(LIGA, tarea[t].season_id) # <<>> =>
            /\ tarea[t].estado = "ok"
            /\ \A i \in 1..Len(tarea[t].retorno) :
                  tarea[t].retorno[i].equipo \in team_statistics

\* C3: obtener_stats_equipo(nombre, LIGA, s) returns not-found or the team of
\* that name, that league and season s.
C3_EquipoDeLaTemporada ==
    consulta.resultado # <<>> =>
        /\ consulta.resultado[1].nombre = consulta.nombre
        /\ consulta.resultado[1].liga_id = LIGA
        /\ consulta.resultado[1].season_id = consulta.season_id

\* C4: a build interleaved with another build ends as it ends alone: no
\* failure, the teams and statistics of the build alone returned, and every
\* document in the store the document that the build of its season alone
\* computes.
C4_SinEstadoCompartido ==
    /\ \A t \in Tareas :
          tarea[t].pc = "fin" /\ PartidosDe(LIGA, tarea[t].season_id) # <<>> =>
              /\ tarea[t].estado = "ok"
              /\ tarea[t].retorno = SoloConstruccion(tarea[t].season_id).cache
    /\ \A d \in team_statistics :
          \E i \in 1..Len(SoloConstruccion(d.season_id).cache) :
              SoloConstruccion(d.season_id).cache[i].equipo = d

-----------------------------------------------------------------------------
(* Properties of the forecast engine *)

\* a call of f has returned
Retorno(f) == motor.llamada = f /\ motor.salida # <<>>

\* the outcomes that a double-chance pick covers: 1X covers L and E, X2
\* covers E and V, 12 covers L and V
Cubre(doble_oportunidad, resultado) ==
    \/ doble_oportunidad = "1X" /\ resultado \in {"L", "E"}
    \/ doble_oportunidad = "X2" /\ resultado \in {"E", "V"}
    \/ doble_oportunidad = "12" /\ resultado \in {"L", "V"}

\* C5, over every call: whatever probabilities and primary pick are passed to
\* _generar_doble_oportunidad, and in every period forecast of the engine,
\* the primary pick is one of the two outcomes that the double-chance pick
\* covers.
C5_CualquierProbabilidad ==
    motor.salida # <<>> =>
        Cubre(motor.salida[1].doble_oportunidad, motor.salida[1].pronostico)

\* C5, over the engine: in every period forecast of the engine the primary pick is
\* covered by the double-chance pick, and _generar_doble_oportunidad covers
\* the pick it is given unless the pick is E and home% + away% exceeds 116.
C5_PronosticoCubierto ==
    /\ Retorno("_generar_pronostico_tiempo") =>
          Cubre(motor.salida[1].doble_oportunidad, motor.salida[1].pronostico)
    /\ Retorno("_generar_doble_oportunidad") =>
          \/ /\ motor.entrada.pronostico = "E"
             /\ motor.entrada.probabilidades.porcentaje_local
                  + motor.entrada.probabilidades.porcentaje_visita > SUMA_PROB_MIN
             /\ motor.salida[1].doble_oportunidad = "12"
          \/ Cubre(motor.salida[1].doble_oportunidad, motor.salida[1].pronostico)

\* a forecast of the engine whose primary pick is the draw, covered by a
\* double-chance pick that holds the draw
C5_Testigo ==
    /\ Retorno("_generar_pronostico_tiempo")
    /\ motor.salida[1].ok
    /\ motor.salida[1].pronostico = "E"
    /\ motor.salida[1].doble_oportunidad \in {"1X", "X2"}

\* C7: every Probabilidades triple that a step of the pipeline returned
\* (_calcular_probabilidades, _ajustar_por_forma_reciente,
\* _ajustar_por_historico) sums to 100 within 0.05.
C7_SumaCien ==
    Retorno("_generar_pronostico_tiempo") =>
        \A paso \in {motor.salida[1].p1, motor.salida[1].p3, motor.salida[1].p4} :
            paso # <<>> => Abs(Suma(paso[1]) - 10000) <= 5

\* the three steps ran, with a clamp of the form adjustment, a head-to-head
\* mix and a season factor other than 1, and the rounding shows in the sum
C7_Testigo ==
    /\ Retorno("_generar_pronostico_tiempo")
    /\ motor.salida[1].p3 # <<>>
    /\ motor.salida[1].p4 # <<>>
    /\ motor.salida[1].p1[1].porcentaje_empate = 0
    /\ motor.entrada.factores_historicos[1].h2h.total_partidos >= 3
    /\ motor.entrada.factores_historicos[1].factor_local # 1000
    /\ Suma(motor.salida[1].p4[1]) # 10000

\* C8: for all inputs, the historical factors of step 4 included, the
\* PronosticoTiempo of _generar_pronostico_tiempo is built, with two strength
\* factors that are integers in 1..5.
C8_FactoresEnteros ==
    Retorno("_generar_pronostico_tiempo") =>
        /\ motor.salida[1].ok
        /\ motor.salida[1].factor_local \in {1000, 2000, 3000, 4000, 5000}
        /\ motor.salida[1].factor_visita \in {1000, 2000, 3000, 4000, 5000}

\* the real outcome of a time scope: greater, equal, less; the second half
\* is the full time minus the first half
ResultadoReal(goles, t) ==
    LET gl == IF t = "completo" THEN goles[1]
              ELSE IF t = "primer_tiempo" THEN goles[3]
              ELSE goles[1] - goles[3]
        gv == IF t = "completo" THEN goles[2]
              ELSE IF t = "primer_tiempo" THEN goles[4]
              ELSE goles[2] - goles[4]
    IN  IF gl > gv THEN "L" ELSE IF gl = gv THEN "E" ELSE "V"

\* C6: when a stored forecast is validated, in each time scope whose primary
\* pick equals the real outcome acierto_principal is true and the
\* double-chance verdict is GANA.
C6_AciertoGana ==
    validacion.estado = "ok" =>
        \A d \in predictions : \A t \in TiposTiempo :
            /\ d.id = validacion.pronostico_id
            /\ d.tiempos[t].pronostico = ResultadoReal(validacion.goles, t)
            => /\ validacion.tiempos[1][t].acierto_principal
               /\ validacion.tiempos[1][t].resultado_doble_oportunidad = "GANA"

\* a validation in which the pick of a scope is the draw and the real
\* outcome of the scope is the draw
C6_Testigo ==
    /\ validacion.estado = "ok"
    /\ \E d \in predictions : \E t \in TiposTiempo :
          /\ d.id = validacion.pronostico_id
          /\ d.tiempos[t].pronostico = "E"
          /\ ResultadoReal(validacion.goles, t) = "E"
          /\ validacion.tiempos[1][t].acierto_principal

\* C9: a forecast that generar_pronostico has returned is in the store under
\* its id, and a validar_pronostico call with the id of a returned forecast
\* does not end in not-found.
C9_DevueltoPersistido ==
    /\ [](\A t \in Peticiones :
            peticion[t].pc = "devuelto" => peticion[t].pronostico[1] \in predictions)
    /\ [](\A d \in devueltos : FindOne(predictions, d.id) = <<d>>)
    /\ [][\A d \in devueltos :
            validacion' # validacion /\ validacion'.pronostico_id = d.id
            => validacion'.estado = "ok"]_vars

\* a returned forecast has been validated, while another request failed in
\* its insert
C9_Testigo ==
    /\ validacion.estado = "ok"
    /\ \E d \in devueltos : d.id = validacion.pronostico_id
    /\ \E t \in Peticiones : peticion[t].error = "PyMongoError"

\* C10: after any number of generar_pronostico calls for the same home team,
\* away team, league and season, the store holds one forecast document for
\* that fixture.
C10_UnPronosticoPorPartido ==
    \A d1 \in predictions : \A d2 \in predictions :
        /\ d1.equipo_local = d2.equipo_local
        /\ d1.equipo_visitante = d2.equipo_visitante
        /\ d1.liga_id = d2.liga_id
        /\ d1.season_id = d2.season_id
        => d1 = d2

-----------------------------------------------------------------------------
(* Properties of the validation engine *)

\* C11: after any sequence of validar_pronostico calls the validations
\* collection holds at most one document that references a given forecast id.
C11_UnaValidacionPorPronostico ==
    \A i \in DOMAIN validations : \A j \in DOMAIN validations :
        validations[i].pronostico_id = validations[j].pronostico_id => i = j

\* the validations whose forecast belongs to the league
DeLaLiga(validaciones, liga) ==
    LET Test(v) == FindOne(predictions, v.pronostico_id)[1].liga_id = liga
    IN  SelectSeq(validaciones, Test)

\* C14: calcular_efectividad with a league filter returns the counts and
\* percentages of the validations of that league alone; the validations of
\* another league in the store do not change them.
C14_SoloLaLiga ==
    [][/\ servicio' # servicio
       /\ servicio'.llamada = "calcular_efectividad"
       /\ servicio'.entrada.liga_id # <<>>
       => servicio'.salida[1] =
              Efectividad(DeLaLiga(validations, servicio'.entrada.liga_id[1]),
                          servicio'.entrada.liga_id)]_vars

-----------------------------------------------------------------------------
(* Properties of the reads of generar_pronostico *)

\* both teams of the forecast have statistics of its league and season
ConEstadisticas(d) ==
    \A nombre \in {d.equipo_local, d.equipo_visitante} :
        Coinciden(team_statistics,
                  [nombre |-> nombre, liga_id |-> d.liga_id,
                   season_id |-> d.season_id]) # {}

\* C12: generar_pronostico fails with the missing-statistics error whenever
\* the home or the away team has no statistics of the requested league and
\* season, and writes no forecast: every forecast that a request built or
\* stored is of two teams that have statistics of its league and season.
C12_SinEstadisticasNoHayPronostico ==
    /\ \A t \in Peticiones :
          peticion[t].pronostico # <<>> => ConEstadisticas(peticion[t].pronostico[1])
    /\ \A d \in predictions : ConEstadisticas(d)

-----------------------------------------------------------------------------
(* Properties of the backtesting *)

-----------------------------------------------------------------------------
(* Properties of the classification *)

\* the rows ignoring posicion, as a bag
SinPosicion(filas) ==
    [k \in DOMAIN filas |-> [filas[k] EXCEPT !.posicion = 0]]

\* C15: generar_clasificacion returns the rows of the teams ordered by
\* points descending, goal difference descending, goals-for descending and
\* name ascending, the k-th row carries position k, and of two teams with
\* different names and equal points, goal difference and goals-for the one
\* with the lexicographically earlier name comes first.
C15_OrdenTotal ==
    (servicio.llamada = "generar_clasificacion" /\ servicio.salida # <<>>
     /\ servicio.entrada # <<>>) =>
        LET filas == servicio.salida[1].filas
        IN  /\ Len(filas) = Len(servicio.entrada)
            /\ \A x \in FilasPosibles :
                  Cardinality({k \in DOMAIN filas : SinPosicion(filas)[k] = x})
                    = Cardinality({k \in DOMAIN servicio.entrada :
                                      servicio.entrada[k] = x})
            /\ \A k \in DOMAIN filas : filas[k].posicion = k
            /\ \A j \in DOMAIN filas : \A k \in DOMAIN filas :
                  j < k =>
                     \/ filas[j].pts > filas[k].pts
                     \/ /\ filas[j].pts = filas[k].pts
                        /\ filas[j].dif > filas[k].dif
                     \/ /\ filas[j].pts = filas[k].pts
                        /\ filas[j].dif = filas[k].dif
                        /\ filas[j].gf > filas[k].gf
                     \/ /\ filas[j].pts = filas[k].pts
                        /\ filas[j].dif = filas[k].dif
                        /\ filas[j].gf = filas[k].gf
                        /\ ~MenorCadena(filas[k].equipo, filas[j].equipo)

\* three teams level on points, goal difference and goals-for were returned
\* in the order B, AB, A and are ranked A, AB, B
C15_Testigo ==
    /\ servicio.llamada = "generar_clasificacion"
    /\ servicio.salida # <<>>
    /\ Len(servicio.entrada) = 3
    /\ servicio.entrada[1].equipo = <<66>>
    /\ servicio.entrada[2].equipo = <<65, 66>>
    /\ servicio.entrada[3].equipo = <<65>>
    /\ \A k \in 1..3 : servicio.entrada[k].pts = 3 /\ servicio.entrada[k].dif = 0
                       /\ servicio.entrada[k].gf = 1
    /\ servicio.salida[1].filas[1].equipo = <<65>>
    /\ servicio.salida[1].filas[2].equipo = <<65, 66>>
    /\ servicio.salida[1].filas[3].equipo = <<66>>

-----------------------------------------------------------------------------
(* Properties of the points of a team *)

PuntosCoherentes(st) ==
    /\ st["puntos"] = PUNTOS_VICTORIA * st["victorias"] + PUNTOS_EMPATE * st["empates"]
    /\ st["pts_local"] = PUNTOS_VICTORIA * st["v_local"] + PUNTOS_EMPATE * st["e_local"]
    /\ st["pts_visita"] = PUNTOS_VICTORIA * st["v_visita"] + PUNTOS_EMPATE * st["e_visita"]

\* C16: for every team held by the builder, in each of the three time scopes
\* and each context (overall, home, away), points = 3 x wins + 1 x draws,
\* after the builder has folded any number of matches.
C16_PuntosDeVictoriasYEmpates ==
    \A i \in 1..Len(equipos_cache) : \A t \in TiposTiempo :
        PuntosCoherentes(equipos_cache[i].equipo.stats[t])

-----------------------------------------------------------------------------
(* Properties of the recent form *)

\* C17: obtener_forma_reciente(team, league, season, N) reports at most N
\* letters, of finished matches of the team in that league and season only,
\* ordered most recent first, and they are the most recent ones.
C17_UltimosPartidosTerminados ==
    (servicio.llamada = "obtener_forma_reciente" /\ servicio.salida # <<>>) =>
        LET e == servicio.entrada
            r == servicio.salida[1]
            terminados == {i \in CoincidenForma(e.nombre_equipo, LIGA, e.season_id) :
                              football_matches[i].estado_del_partido = "Match Finished"}
        IN  /\ Len(r.ultimos_5) <= e.n_partidos
            /\ Len(r.ultimos_5) = Len(r.partidos)
            /\ \A k \in DOMAIN r.partidos : r.partidos[k] \in terminados
            /\ \A j \in DOMAIN r.partidos : \A k \in DOMAIN r.partidos :
                  j < k => r.partidos[j] > r.partidos[k]
            /\ \A i \in terminados :
                  (\A k \in DOMAIN r.partidos : r.partidos[k] # i) =>
                      /\ Len(r.partidos) = e.n_partidos
                      /\ \A k \in DOMAIN r.partidos : r.partidos[k] > i

-----------------------------------------------------------------------------
(* Properties of the scenario of a dominant home team *)

\* C18: with a home record of 10 wins in 10 home matches and an away record
\* of 10 defeats in 10 away matches, the full-match forecast is built with the
\* pick L, the double chance 1X and a confidence above 60, whatever the
\* recent form of the two teams is.
C18_LocalDominante ==
    (motor.llamada = "_generar_pronostico_tiempo" /\ motor.salida # <<>>) =>
        /\ motor.salida[1].ok
        /\ motor.salida[1].pronostico = "L"
        /\ motor.salida[1].doble_oportunidad = "1X"
        /\ motor.salida[1].confianza > 6000

-----------------------------------------------------------------------------
(* Properties of the match store *)

SumaStats(stats) ==
    stats.insertados + stats.actualizados + stats.duplicados + stats.errores

\* C19: insert_many_matches counts each document of the list in exactly one
\* of insertados, actualizados, duplicados and errores, so the four counters
\* of the result sum to the length of the list; a document whose insert hit
\* a duplicate key and whose update succeeded adds one to actualizados and
\* nothing to the other three.
C19_CadaDocumentoUnaVez ==
    /\ [](servicio.llamada = "insert_many_matches" =>
            /\ SumaStats(servicio.stats) =
                   Len(servicio.entrada) - Len(servicio.pendientes)
            /\ (servicio.salida # <<>> =>
                   SumaStats(servicio.salida[1]) = Len(servicio.entrada)))
    /\ [][(/\ servicio'.llamada = "insert_many_matches"
           /\ servicio'.pendientes # servicio.pendientes
           /\ servicio'.ultimo[1].excepcion = "DuplicateKeyError"
           /\ servicio'.ultimo[1].actualizado) =>
              servicio'.stats = [servicio.stats EXCEPT !.actualizados = @ + 1]]_vars

\* a list of two documents that hit a duplicate key: the update of one
\* succeeded, the update of the other did not
C19_Testigo ==
    /\ servicio.llamada = "insert_many_matches"
    /\ servicio.salida # <<>>
    /\ servicio.salida[1] = [insertados |-> 0, actualizados |-> 1,
                              duplicados |-> 1, errores |-> 0]

\* C20: _update_existing_match, for a document with a match_id or an
\* id_partido, sends one update whose $set has no _id, and returns True when
\* the update matched the existing match.
C20_SetSinId ==
    (/\ servicio.llamada = "_update_existing_match"
     /\ servicio.salida # <<>>
     /\ (servicio.entrada[1].match_id # "" \/ servicio.entrada[1].id_partido # 0)) =>
        /\ Len(servicio.enviados) = 1
        /\ servicio.enviados[1].set._id = 0
        /\ (servicio.enviados[1].matched_count > 0 => servicio.salida[1])

-----------------------------------------------------------------------------
(* Properties of the season functions *)

\* C21: for every date of the calendar written YYYY-MM-DD,
\* infer_season_from_date returns the year when the month is August or
\* later and the year before otherwise, whatever the season hint is.
C21_TemporadaDeLaFecha ==
    (servicio.llamada = "infer_season_from_date" /\ servicio.salida # <<>>) =>
        \A y \in AniosFecha, m \in 1..12, d \in 1..31 :
            (d <= DiasDelMes(y, m) /\ servicio.entrada.fecha = FormatoFecha(y, m, d)) =>
                servicio.salida[1] = IF m >= 8 THEN y ELSE y - 1

\* 2024-02-01 with the hint 2020 gave 2023
C21_Testigo ==
    /\ servicio.llamada = "infer_season_from_date"
    /\ servicio.entrada.fecha = <<"2", "0", "2", "4", "-", "0", "2", "-", "0", "1">>
    /\ servicio.entrada.season_hint = <<2020>>
    /\ servicio.salida = <<2023>>

\* C22: for every league id and start year y the two generate_season_id
\* return the same text, the league id followed by _, y in decimal, - and
\* the two digits of (y + 1) mod 100.
C22_MismoSeasonId ==
    (servicio.llamada = "generate_season_id" /\ servicio.salida # <<>>) =>
        LET e == servicio.entrada
            r == servicio.salida[1]
            siguiente == (e.year + 1) % 100
            n == Len(r.transformer)
        IN  /\ r.transformer = r.stats_builder
            /\ n = Len(e.liga_id) + Len(Decimal(e.year)) + 4
            /\ SubSeq(r.transformer, 1, Len(e.liga_id)) = e.liga_id
            /\ r.transformer[Len(e.liga_id) + 1] = "_"
            /\ ValorDecimal(SubSeq(r.transformer, Len(e.liga_id) + 2, n - 3)) = e.year
            /\ r.transformer[n - 2] = "-"
            /\ r.transformer[n - 1] = Digitos[(siguiente \div 10) + 1]
            /\ r.transformer[n] = Digitos[(siguiente % 10) + 1]

\* SPAIN_LA_LIGA and 2023 gave SPAIN_LA_LIGA_2023-24 in both
C22_Testigo ==
    /\ servicio.llamada = "generate_season_id"
    /\ servicio.salida # <<>>
    /\ servicio.salida[1].transformer =
          <<"S", "P", "A", "I", "N", "_", "L", "A", "_", "L", "I", "G", "A",
            "_", "2", "0", "2", "3", "-", "2", "4">>
    /\ servicio.salida[1].stats_builder = servicio.salida[1].transformer

-----------------------------------------------------------------------------
(* Properties of the decision rules *)

\* the adjusted home and away percentages and the draw percentage of a call
\* of _aplicar_algoritmo_decision, in five-hundredths of a percent: a factor
\* f shifts the percentage by (f - 3) * 2
LocalAjustado == 5 * motor.entrada.probabilidades.porcentaje_local + (motor.entrada.factor_local - 3000)
VisitaAjustado == 5 * motor.entrada.probabilidades.porcentaje_visita + (motor.entrada.factor_visita - 3000)
EmpateDeLaLlamada == 5 * motor.entrada.probabilidades.porcentaje_empate

CienYFactoresEnteros ==
    /\ Suma(motor.entrada.probabilidades) = 10000
    /\ motor.entrada.factor_local \in {1000, 2000, 3000, 4000, 5000}
    /\ motor.entrada.factor_visita \in {1000, 2000, 3000, 4000, 5000}

\* C24, as stated: whenever _aplicar_algoritmo_decision returns L for a
\* triple that sums to 100 and factors in 1..5, the adjusted home percentage
\* is at least the adjusted away percentage.
C24_LocalNoMenorQueVisita ==
    (/\ Retorno("_aplicar_algoritmo_decision")
     /\ CienYFactoresEnteros
     /\ motor.salida[1].pronostico = "L") =>
        LocalAjustado >= VisitaAjustado

\* C24, amended: whenever _aplicar_algoritmo_decision returns L for a triple
\* that sums to 100 and factors in 1..5, the adjusted home percentage is at
\* least the adjusted away percentage, unless the adjusted home is strictly
\* between 43 and 69.5 and the draw is below 20 (the first rule).
C24_LocalSalvoRangoOptimo ==
    (/\ Retorno("_aplicar_algoritmo_decision")
     /\ CienYFactoresEnteros
     /\ motor.salida[1].pronostico = "L") =>
        \/ LocalAjustado >= VisitaAjustado
        \/ /\ LocalAjustado > 5 * 4300 /\ LocalAjustado < 5 * 6950
           /\ EmpateDeLaLlamada < 5 * 2000

\* L was returned while the adjusted away percentage was the higher one
C24_Testigo ==
    /\ Retorno("_aplicar_algoritmo_decision")
    /\ CienYFactoresEnteros
    /\ motor.salida[1].pronostico = "L"
    /\ VisitaAjustado > LocalAjustado

\* C25: for every triple that sums to 100 within 0.05,
\* _generar_doble_oportunidad does not return 12, and every double-chance
\* pick of a period forecast of the engine is 1X or X2.
C25_NuncaLocalVisita ==
    /\ (/\ Retorno("_generar_doble_oportunidad")
        /\ Abs(Suma(motor.entrada.probabilidades) - 10000) <= 5) =>
           motor.salida[1].doble_oportunidad \in {"1X", "X2"}
    /\ Retorno("_generar_pronostico_tiempo") =>
           motor.salida[1].doble_oportunidad \in {"1X", "X2"}

\* a call with home 99.95 and away 0.10, the largest home + away that a sum
\* within 0.05 of 100 allows
C25_Testigo ==
    /\ Retorno("_generar_doble_oportunidad")
    /\ motor.entrada.probabilidades = Probabilidades(9995, 0, 10)
    /\ motor.salida[1].doble_oportunidad = "1X"

-----------------------------------------------------------------------------
(* Properties of the recent-form adjustment *)

\* C26: in a period forecast where a team has no recent matches (its form
\* reports 'Sin datos'), the probabilities after the recent-form step are the
\* base probabilities of the first step.
C26_SinDatosSinAjuste ==
    (/\ Retorno("_generar_pronostico_tiempo")
     /\ \/ motor.entrada.forma_local[1].racha = "Sin datos"
        \/ motor.entrada.forma_visitante[1].racha = "Sin datos") =>
        (motor.salida[1].p3 = <<>> \/ motor.salida[1].p3 = motor.salida[1].p1)

-----------------------------------------------------------------------------
(* Properties of the season weights *)

RECURSIVE SumaPesos(_)
SumaPesos(pesos) == IF pesos = <<>> THEN 0 ELSE Head(pesos) + SumaPesos(Tail(pesos))

\* the weights that the last call computed or used, <<>> when none
PesosUsados ==
    IF servicio.salida = <<>> THEN <<>>
    ELSE IF servicio.llamada = "_calcular_pesos" THEN servicio.salida[1]
    ELSE IF servicio.llamada = "_calcular_stats_ponderadas" THEN servicio.salida[1].pesos
    ELSE <<>>

\* the older seasons get 60% of what is still unassigned, the last the rest
RepartoGeometrico(pesos) ==
    /\ pesos[1] = 70000
    /\ \A i \in 2..(Len(pesos) - 1) :
          10 * pesos[i] = 6 * (PesoUno - SumaPesos(SubSeq(pesos, 1, i - 1)))
    /\ pesos[Len(pesos)] = PesoUno - SumaPesos(SubSeq(pesos, 1, Len(pesos) - 1))

-----------------------------------------------------------------------------
(* Properties of the store during a backtest *)

\* C28: after ejecutar_backtesting the predictions, validations and
\* team_statistics collections hold exactly the documents they held before
\* the run.
C28_AlmacenIntacto ==
    (servicio.llamada = "ejecutar_backtesting" /\ servicio.salida # <<>>) =>
        /\ predictions = {}
        /\ validations = <<>>
        /\ team_statistics = EstadisticasBacktest

-----------------------------------------------------------------------------
(* Properties across the three time scopes of a team *)

\* the half-time goals of the match do not exceed its full-time goals
MarcadorCoherente(partido) ==
    /\ partido.goles_local_1MT <= partido.goles_local_TR
    /\ partido.goles_visitante_1MT <= partido.goles_visitante_TR

\* same played counts in the three scopes, and the goals of the full match
\* are those of the first half plus those of the second half
TiemposCoherentes(equipo) ==
    LET tc == equipo.stats["completo"]
        mt1 == equipo.stats["primer_tiempo"]
        mt2 == equipo.stats["segundo_tiempo"]
    IN  /\ \A c \in {"partidos_jugados", "pj_local", "pj_visita"} :
              tc[c] = mt1[c] /\ tc[c] = mt2[c]
        /\ \A c \in {"goles_favor", "goles_contra", "gf_local", "gc_local",
                     "gf_visita", "gc_visita"} :
              tc[c] = mt1[c] + mt2[c]

\* C29: when no match of the collection has more half-time goals than
\* full-time goals, every team held by the builder has the same played count
\* in its full, first-half and second-half statistics, and its full-match
\* goals for and against are the sum of those of the two halves, overall, at
\* home and away.
C29_MitadesSumanCompleto ==
    (\A i \in DOMAIN football_matches : MarcadorCoherente(football_matches[i])) =>
        \A i \in 1..Len(equipos_cache) : TiemposCoherentes(equipos_cache[i].equipo)

\* a team that played at home and away, with a goal in each half
C29_Testigo ==
    /\ \A i \in DOMAIN football_matches : MarcadorCoherente(football_matches[i])
    /\ \E i \in 1..Len(equipos_cache) :
          LET e == equipos_cache[i].equipo
          IN  /\ e.stats["completo"]["pj_local"] >= 1
              /\ e.stats["completo"]["pj_visita"] >= 1
              /\ e.stats["primer_tiempo"]["goles_favor"] >= 1
              /\ e.stats["segundo_tiempo"]["goles_favor"] >= 1

-----------------------------------------------------------------------------
(* Properties of the API client *)

\* the answers after which _make_request tries again
Reintentables == {"429", "500", "503", "Timeout", "ConnectionError"}

\* the first attempt whose answer is not one of those, 0 when there is none
PrimeraDefinitiva ==
    IF \E i \in 1..MAX_RETRIES : servicio.entrada[i] \notin Reintentables
    THEN CHOOSE i \in 1..MAX_RETRIES :
            /\ servicio.entrada[i] \notin Reintentables
            /\ \A j \in 1..(i - 1) : servicio.entrada[j] \in Reintentables
    ELSE 0

\* C30: _make_request ends after at most MAX_RETRIES HTTP attempts for every
\* sequence of answers; it tries again only after a 429, a 5xx, a timeout or
\* a connection error, returns the data at the first 200 without errors,
\* returns None at once for any other status, a 200 with errors or an
\* unexpected exception, and returns None when the attempts are used up.
C30_TerminaEnTresIntentos ==
    /\ <>(servicio.salida # <<>>)
    /\ [](servicio.peticiones <= 3)
    /\ [](servicio.salida # <<>> =>
            IF PrimeraDefinitiva = 0
            THEN servicio.peticiones = 3 /\ servicio.salida = <<"None">>
            ELSE /\ servicio.peticiones = PrimeraDefinitiva
                 /\ servicio.salida =
                       IF servicio.entrada[PrimeraDefinitiva] = "200"
                       THEN <<"data">> ELSE <<"None">>)

\* a 429, then a 503, then the data at the third attempt
C30_Testigo ==
    /\ servicio.llamada = "_make_request"
    /\ servicio.entrada = <<"429", "503", "200">>
    /\ servicio.peticiones = 3
    /\ servicio.salida = <<"data">>

====
